---- MODULE Spec2Model ----
(***************************************************************************)
(* Verification model of the hierarchical configuration engine of Thanos:  *)
(* src/lambdas/common/config_merger.py (deep_merge, path addressing,       *)
(* detect_conflicts, compare_configs) and src/lambdas/common/eval_old.py   *)
(* (hierarchical rule evaluation).                                         *)
(*                                                                         *)
(* Python objects live in a heap: a dict is a heap cell (a function from   *)
(* keys to values) named by its address, so that aliasing and in-place     *)
(* mutation (result[key] = ..., current[part] = ...) are visible.  Scalars *)
(* and lists are immutable values: no modelled code mutates a list.        *)
(***************************************************************************)
EXTENDS Integers, Sequences, FiniteSets, TLC

VARIABLES
    heap,      \* the Python heap: a sequence of dict cells, address = index
    heap0,     \* the heap as it was when the operation under study was called
    pc,        \* position of the operation under study
    args,      \* its arguments (addresses into the heap, or values)
    ret,       \* its return value, or NoResult before it returns
    todo,      \* the paths a "for path in all_paths" loop has still to visit
    acc        \* the local variables such a loop accumulates into

vars == <<heap, heap0, pc, args, ret, todo, acc>>

(***************************************************************************)
(* Values.  A value is a tagged record; the tag fixes the payload's type.  *)
(***************************************************************************)
\* Largest integer leaf of the generated configurations.
MaxInt == 2

NoneV == [t |-> "none", v |-> 0]
IntV(n) == [t |-> "int", v |-> n]
StrV(s) == [t |-> "str", v |-> s]
ListV(l) == [t |-> "list", v |-> l]
\* A reference to the dict stored at heap address a.
Ref(a) == [t |-> "ref", v |-> a]
\* An abstract (heap-free) mapping, used for inputs and for reading results.
MapV(f) == [t |-> "map", v |-> f]

\* The keys of the generated configurations, in the order the dicts hold them.
KeySeq == <<"a", "b">>
Keys == {KeySeq[i] : i \in DOMAIN KeySeq}

EmptyDict == [k \in {} |-> NoneV]

\* The keys of a dict in iteration order.
RECURSIVE OrderedKeys(_, _)
OrderedKeys(dom, i) ==
    IF i > Len(KeySeq) THEN <<>>
    ELSE IF KeySeq[i] \in dom THEN <<KeySeq[i]>> \o OrderedKeys(dom, i + 1)
    ELSE OrderedKeys(dom, i + 1)

items(d) == OrderedKeys(DOMAIN d, 1)

\* d[key] = value on a dict value.
SetKey(d, key, value) == [k \in (DOMAIN d) \cup {key} |-> IF k = key THEN value ELSE d[k]]

\* heap[a][key] = value
SetItem(h, a, key, value) == [h EXCEPT ![a] = SetKey(@, key, value)]

(***************************************************************************)
(* Building the inputs: an abstract mapping is stored into the heap, one   *)
(* fresh dict per nested mapping.                                          *)
(***************************************************************************)
RECURSIVE StoreTree(_, _), StoreKeys(_, _, _, _)
StoreTree(h, f) ==
    StoreKeys(Append(h, EmptyDict), Len(h) + 1, f, items(f))

StoreKeys(h, a, f, ks) ==
    IF ks = <<>> THEN [h |-> h, r |-> a]
    ELSE LET k == Head(ks)
             val == f[k]
         IN  IF val.t = "map"
             THEN LET s == StoreTree(h, val.v)
                  IN  StoreKeys(SetItem(s.h, a, k, Ref(s.r)), a, f, Tail(ks))
             ELSE StoreKeys(SetItem(h, a, k, val), a, f, Tail(ks))

\* The abstract mapping held at address a of heap h.
RECURSIVE Tree(_, _)
Tree(h, a) ==
    [k \in DOMAIN h[a] |->
        IF h[a][k].t = "ref" THEN MapV(Tree(h, h[a][k].v)) ELSE h[a][k]]

(***************************************************************************)
(* copy.deepcopy: a dict is copied into fresh cells, recursively; an       *)
(* immutable value is itself.                                              *)
(***************************************************************************)
RECURSIVE deepcopy(_, _), CopyKeys(_, _, _, _)
deepcopy(h, val) ==
    IF val.t = "ref"
    THEN CopyKeys(Append(h, EmptyDict), Len(h) + 1, val.v, items(h[val.v]))
    ELSE [h |-> h, r |-> val]

CopyKeys(h, dst, src, ks) ==
    IF ks = <<>> THEN [h |-> h, r |-> Ref(dst)]
    ELSE LET c == deepcopy(h, h[src][Head(ks)])
         IN  CopyKeys(SetItem(c.h, dst, Head(ks), c.r), dst, src, Tail(ks))

(***************************************************************************)
(* config_merger.deep_merge                                                *)
(***************************************************************************)
RECURSIVE deep_merge(_, _, _), MergeItems(_, _, _, _)

\* Mutant: result = base, without the copy.
deep_merge_nocopy(h, base, override) ==
    MergeItems(h, base, override, items(h[override]))

\* deep_merge(base, override): [h |-> heap after the call, r |-> address returned]
deep_merge(h, base, override) ==
    LET c == deepcopy(h, Ref(base))
    IN  MergeItems(c.h, c.r.v, override, items(h[override]))

\* Mutant: a key the base already holds as a mapping keeps the base's value
\* when the override's value is not a mapping.
MergeItems_keepmap(h, result, override, ks) ==
    IF ks = <<>> THEN [h |-> h, r |-> result]
    ELSE LET key == Head(ks)
             value == h[override][key]
         IN  IF key \in DOMAIN h[result] /\ h[result][key].t = "ref"
             THEN IF value.t = "ref"
                  THEN LET m == deep_merge(h, h[result][key].v, value.v)
                       IN  MergeItems(SetItem(m.h, result, key, Ref(m.r)),
                                      result, override, Tail(ks))
                  ELSE MergeItems(h, result, override, Tail(ks))
             ELSE LET c == deepcopy(h, value)
                  IN  MergeItems(SetItem(c.h, result, key, c.r),
                                 result, override, Tail(ks))

\* Mutant: two mappings under the same key are not merged, the override's
\* replaces the base's.
MergeItems_replace(h, result, override, ks) ==
    IF ks = <<>> THEN [h |-> h, r |-> result]
    ELSE LET c == deepcopy(h, h[override][Head(ks)])
         IN  MergeItems(SetItem(c.h, result, Head(ks), c.r),
                        result, override, Tail(ks))

\* Mutant: two lists under the same key are concatenated.
MergeItems_extend(h, result, override, ks) ==
    IF ks = <<>> THEN [h |-> h, r |-> result]
    ELSE LET key == Head(ks)
             value == h[override][key]
         IN  IF key \in DOMAIN h[result] /\ h[result][key].t = "ref" /\ value.t = "ref"
             THEN LET m == deep_merge(h, h[result][key].v, value.v)
                  IN  MergeItems(SetItem(m.h, result, key, Ref(m.r)),
                                 result, override, Tail(ks))
             ELSE IF key \in DOMAIN h[result] /\ h[result][key].t = "list"
                     /\ value.t = "list"
             THEN MergeItems(SetItem(h, result, key,
                                     ListV(h[result][key].v \o value.v)),
                             result, override, Tail(ks))
             ELSE LET c == deepcopy(h, value)
                  IN  MergeItems(SetItem(c.h, result, key, c.r),
                                 result, override, Tail(ks))

\* The loop "for key, value in override.items()" of deep_merge.
MergeItems(h, result, override, ks) ==
    IF ks = <<>> THEN [h |-> h, r |-> result]
    ELSE LET key == Head(ks)
             value == h[override][key]
         IN  IF key \in DOMAIN h[result] /\ h[result][key].t = "ref" /\ value.t = "ref"
             THEN LET m == deep_merge(h, h[result][key].v, value.v)
                  IN  MergeItems(SetItem(m.h, result, key, Ref(m.r)),
                                 result, override, Tail(ks))
             ELSE LET c == deepcopy(h, value)
                  IN  MergeItems(SetItem(c.h, result, key, c.r),
                                 result, override, Tail(ks))

(***************************************************************************)
(* Generated configurations.                                               *)
(***************************************************************************)
\* Leaves: null, integers, strings that print like the integers, lists.
Ints == {IntV(n) : n \in 1..MaxInt}
Lists == {ListV(<<1>>), ListV(<<2>>), ListV(<<1, 2>>)}
Leaves == {NoneV} \cup Ints \cup Lists

\* All mappings with keys among ks and values among vals.
MapsOver(ks, vals) == UNION {[d -> vals] : d \in SUBSET ks}

\* Mappings nested one level: the inner mappings hold integers.
InnerMaps == MapsOver(Keys, Ints)
MergeTrees ==
    {f \in MapsOver(Keys, Leaves \cup {MapV(m) : m \in InnerMaps}) :
        "b" \in DOMAIN f => f["b"].t \in {"none", "int", "list"}}

NoResult == [t |-> "noresult", v |-> 0]

(***************************************************************************)
(* Specification SpecMerge: deep_merge on every pair of generated          *)
(* configurations, and on one configuration passed as both arguments.      *)
(***************************************************************************)
InitMerge ==
    /\ \E A \in MergeTrees, B \in MergeTrees, same \in BOOLEAN :
          LET sa == StoreTree(<<>>, A)
              sb == StoreTree(sa.h, B)
          IN  /\ same => A = B
              /\ heap = IF same THEN sa.h ELSE sb.h
              /\ args = [base |-> sa.r, override |-> IF same THEN sa.r ELSE sb.r]
    /\ heap0 = heap
    /\ pc = "call"
    /\ ret = NoResult
    /\ todo = {}
    /\ acc = <<>>

DeepMerge ==
    /\ pc = "call"
    /\ LET m == deep_merge(heap, args.base, args.override)
       IN  /\ heap' = m.h
           /\ ret' = Ref(m.r)
    /\ pc' = "done"
    /\ UNCHANGED <<heap0, args, todo, acc>>

NextMerge == DeepMerge

SpecMerge == InitMerge /\ [][NextMerge]_vars

(***************************************************************************)
(* Reading abstract mappings by path, for stating the properties.  A path  *)
(* is the sequence of keys from the root.                                  *)
(***************************************************************************)
Missing == [t |-> "missing", v |-> 0]   \* a key of the path is not in the map
Blocked == [t |-> "blocked", v |-> 0]   \* a prefix of the path holds a non-map

PathSet == UNION {[1..n -> Keys] : n \in 1..2}

RECURSIVE Lookup(_, _)
Lookup(f, p) ==
    IF p = <<>> THEN MapV(f)
    ELSE IF Head(p) \notin DOMAIN f THEN Missing
    ELSE IF Len(p) = 1 THEN f[Head(p)]
    ELSE IF f[Head(p)].t = "map" THEN Lookup(f[Head(p)].v, Tail(p))
    ELSE Blocked

Present(f, p) == Lookup(f, p) \notin {Missing, Blocked}
IsMapAt(f, p) == Lookup(f, p).t = "map"
IsLeaf(f, p) == Present(f, p) /\ ~IsMapAt(f, p)

MergeA == Tree(heap0, args.base)
MergeB == Tree(heap0, args.override)
MergeR == Tree(heap, ret.v)

(***************************************************************************)
(* C8: deep_merge(A, B) leaves both A and B equal to their values before   *)
(* the call, nested maps and lists included.                               *)
(***************************************************************************)
C8_InputsUnchanged ==
    pc = "done" =>
        /\ Tree(heap, args.base) = MergeA
        /\ Tree(heap, args.override) = MergeB
        /\ \A a \in 1..Len(heap0) : heap[a] = heap0[a]

\* The merge wrote into a nested map of the result while B carried a list.
C8_Witness ==
    /\ pc = "done"
    /\ \E k \in Keys :
          /\ IsMapAt(MergeA, <<k>>) /\ IsMapAt(MergeB, <<k>>)
          /\ MergeR[k] # MergeA[k]
    /\ \E k \in DOMAIN MergeB : MergeB[k].t = "list"

(***************************************************************************)
(* C9 as stated: in deep_merge(A, B) every leaf path present only in B     *)
(* appears with B's value, every leaf path present only in A appears with  *)
(* A's value, and every path that is a map in both is merged recursively.  *)
(***************************************************************************)
OnlyInB(p) == IsLeaf(MergeB, p) /\ ~Present(MergeA, p)
OnlyInA(p) == IsLeaf(MergeA, p) /\ ~Present(MergeB, p)
MergedAt(p) ==
    /\ IsMapAt(MergeR, p)
    /\ DOMAIN Lookup(MergeR, p).v = DOMAIN Lookup(MergeA, p).v \cup DOMAIN Lookup(MergeB, p).v

C9_AsStated ==
    pc = "done" =>
        \A p \in PathSet :
            /\ OnlyInB(p) => Lookup(MergeR, p) = Lookup(MergeB, p)
            /\ OnlyInA(p) => Lookup(MergeR, p) = Lookup(MergeA, p)
            /\ (IsMapAt(MergeA, p) /\ IsMapAt(MergeB, p)) => MergedAt(p)

(***************************************************************************)
(* C9 amended: a leaf path present only in A appears with A's value when   *)
(* B misses it because a key of the path is absent from a map of B; when a *)
(* prefix of the path holds a non-map value in B, that value replaces A's  *)
(* whole subtree.  The B-only and map-in-both parts are as stated.         *)
(***************************************************************************)
C9_MergeKeeps ==
    pc = "done" =>
        \A p \in PathSet :
            /\ OnlyInB(p) => Lookup(MergeR, p) = Lookup(MergeB, p)
            /\ (IsLeaf(MergeA, p) /\ Lookup(MergeB, p) = Missing)
                   => Lookup(MergeR, p) = Lookup(MergeA, p)
            /\ (IsLeaf(MergeA, p) /\ Lookup(MergeB, p) = Blocked)
                   => Lookup(MergeR, p) = Blocked
            /\ (IsMapAt(MergeA, p) /\ IsMapAt(MergeB, p)) => MergedAt(p)

\* A map under the same key in A and in B, with an inner leaf only A has and
\* an inner leaf only B has.
C9_Witness ==
    /\ pc = "done"
    /\ \E k \in Keys, i \in Keys, j \in Keys :
          /\ OnlyInA(<<k, i>>) /\ OnlyInB(<<k, j>>)
          /\ IsMapAt(MergeA, <<k>>) /\ IsMapAt(MergeB, <<k>>)
          /\ Lookup(MergeR, <<k, i>>) = Lookup(MergeA, <<k, i>>)

(***************************************************************************)
(* C10: for every key present in both A and B whose values are not both    *)
(* mappings, deep_merge(A, B) holds exactly B's value at that key (at the  *)
(* top level and inside every pair of mappings merged recursively).        *)
(***************************************************************************)
C10_OverrideReplaces ==
    pc = "done" =>
        \A p \in PathSet :
            (/\ Present(MergeA, p) /\ Present(MergeB, p)
             /\ ~(IsMapAt(MergeA, p) /\ IsMapAt(MergeB, p)))
                => Lookup(MergeR, p) = Lookup(MergeB, p)

\* A list replaced by a different list, and a map of A replaced by a non-map.
C10_Witness ==
    /\ pc = "done"
    /\ \E k \in Keys :
          /\ IsMapAt(MergeA, <<k>>) /\ Present(MergeB, <<k>>) /\ MergeB[k].t = "list"
          /\ MergeR[k] = MergeB[k]
    /\ \E k \in Keys :
          /\ Present(MergeA, <<k>>) /\ Present(MergeB, <<k>>)
          /\ MergeA[k].t = "list" /\ MergeB[k].t = "list" /\ MergeA[k] # MergeB[k]

(***************************************************************************)
(* C11: deep_merge(A, A) equals A, for two equal mappings and for one      *)
(* mapping passed as both arguments.                                       *)
(***************************************************************************)
C11_Idempotent ==
    (pc = "done" /\ MergeA = MergeB) => MergeR = MergeA

\* A merge of a mapping with itself that holds a nested map and a list.
C11_Witness ==
    /\ pc = "done"
    /\ args.base = args.override
    /\ IsMapAt(MergeA, <<"a">>) /\ MergeA["a"].v # EmptyDict
    /\ Present(MergeA, <<"b">>) /\ MergeA["b"].t = "list"
    /\ MergeR = MergeA

(***************************************************************************)
(* Path addressing of config_merger.  A dot-notation path string is        *)
(* modelled by the sequence of its segments (what path.split('.') yields); *)
(* the generated keys contain no dot, so a key is one segment.             *)
(***************************************************************************)
RECURSIVE get_all_paths(_, _, _), PathsOfItems(_, _, _, _)
\* get_all_paths(config, prefix): the list of leaf paths, depth first.
get_all_paths(h, config, prefix) ==
    PathsOfItems(h, config, prefix, items(h[config]))

PathsOfItems(h, config, prefix, ks) ==
    IF ks = <<>> THEN <<>>
    ELSE LET key == Head(ks)
             value == h[config][key]
             current_path == Append(prefix, key)
         IN  (IF value.t = "ref"
              THEN get_all_paths(h, value.v, current_path)
              ELSE <<current_path>>)
             \o PathsOfItems(h, config, prefix, Tail(ks))

RECURSIVE WalkParts(_, _, _)
\* The loop "for part in parts" of get_value_at_path.
WalkParts(h, current, parts) ==
    IF parts = <<>> THEN current
    ELSE IF current.t = "ref" /\ Head(parts) \in DOMAIN h[current.v]
    THEN WalkParts(h, h[current.v][Head(parts)], Tail(parts))
    ELSE NoneV

get_value_at_path(h, config, path) == WalkParts(h, Ref(config), path)

RECURSIVE SetParts(_, _, _, _)
\* set_value_at_path from "current": [h |-> heap after, raised |-> TypeError raised].
\* Indexing or assigning into a value that is not a dict raises TypeError.
SetParts(h, current, parts, value) ==
    IF current.t # "ref" THEN [h |-> h, raised |-> TRUE]
    ELSE IF Len(parts) = 1
    THEN [h |-> SetItem(h, current.v, parts[1], value), raised |-> FALSE]
    ELSE LET part == Head(parts)
         IN  IF part \notin DOMAIN h[current.v]
             THEN LET n == Len(h) + 1
                  IN  SetParts(SetItem(Append(h, EmptyDict), current.v, part, Ref(n)),
                               Ref(n), Tail(parts), value)
             ELSE SetParts(h, h[current.v][part], Tail(parts), value)

set_value_at_path(h, config, path, value) == SetParts(h, Ref(config), path, value)

\* The elements of a list, as a set.
Range(seq) == {seq[i] : i \in DOMAIN seq}

\* The value a reference or an immutable value denotes.
Abs(h, val) == IF val.t = "ref" THEN MapV(Tree(h, val.v)) ELSE val

\* Python's == on configuration values: dicts compare by content.
PyEq(h, x, y) == Abs(h, x) = Abs(h, y)

(***************************************************************************)
(* config_merger.compare_configs.  all_paths is a Python set: the loop     *)
(* visits it in an order the language does not fix.                        *)
(***************************************************************************)
compare_all_paths(h, actual, expected) ==
    Range(get_all_paths(h, actual, <<>>)) \cup Range(get_all_paths(h, expected, <<>>))

\* One iteration of "for path in all_paths": the differences list after it.
compare_path(h, actual, expected, differences, path) ==
    LET actual_value == get_value_at_path(h, actual, path)
        expected_value == get_value_at_path(h, expected, path)
    IN  IF ~PyEq(h, actual_value, expected_value)
        THEN Append(differences, [path |-> path,
                                  actual |-> Abs(h, actual_value),
                                  expected |-> Abs(h, expected_value)])
        ELSE differences

CompareLeaves == {NoneV, ListV(<<1>>)} \cup Ints
CompareTrees ==
    {f \in MapsOver(Keys, CompareLeaves \cup {MapV(m) : m \in InnerMaps}) :
        "b" \in DOMAIN f => f["b"].t # "map"}

InitCompare ==
    /\ \E A \in CompareTrees, B \in CompareTrees :
          LET sa == StoreTree(<<>>, A)
              sb == StoreTree(sa.h, B)
          IN  /\ heap = sb.h
              /\ args = [actual |-> sa.r, expected |-> sb.r]
    /\ heap0 = heap
    /\ pc = "call"
    /\ ret = NoResult
    /\ todo = {}
    /\ acc = <<>>

\* differences = []; all_paths = set(...) | set(...)
CompareCall ==
    /\ pc = "call"
    /\ todo' = compare_all_paths(heap, args.actual, args.expected)
    /\ acc' = <<>>
    /\ pc' = "loop"
    /\ UNCHANGED <<heap, heap0, args, ret>>

ComparePath ==
    /\ pc = "loop"
    /\ \E path \in todo :
          /\ acc' = compare_path(heap, args.actual, args.expected, acc, path)
          /\ todo' = todo \ {path}
    /\ UNCHANGED <<heap, heap0, pc, args, ret>>

CompareReturn ==
    /\ pc = "loop"
    /\ todo = {}
    /\ ret' = acc
    /\ pc' = "done"
    /\ UNCHANGED <<heap, heap0, args, todo, acc>>

NextCompare == CompareCall \/ ComparePath \/ CompareReturn

SpecCompare == InitCompare /\ [][NextCompare]_vars

CmpA == Tree(heap0, args.actual)
CmpB == Tree(heap0, args.expected)
\* The value of a side at a path, null when the side lacks the path.
OrNull(f, p) == IF Present(f, p) THEN Lookup(f, p) ELSE NoneV
\* The values of the two sides differ; a side lacking the path differs from
\* a side holding it.
Differ(f, g, p) ==
    IF Present(f, p) /\ Present(g, p) THEN Lookup(f, p) # Lookup(g, p)
    ELSE Present(f, p) # Present(g, p)
RecordsAt(p) == {i \in DOMAIN ret : ret[i].path = p}

(***************************************************************************)
(* C7 as stated: compare_configs(A, B) returns exactly one difference      *)
(* record for each leaf path present in A or in B whose values differ,     *)
(* the side lacking the path reported as null, and no record for a path    *)
(* whose two values are equal; a path present on only one side is always   *)
(* reported.                                                               *)
(***************************************************************************)
C7_AsStated ==
    pc = "done" =>
        \A p \in PathSet :
            IF (IsLeaf(CmpA, p) \/ IsLeaf(CmpB, p)) /\ Differ(CmpA, CmpB, p)
            THEN /\ Cardinality(RecordsAt(p)) = 1
                 /\ \A i \in RecordsAt(p) :
                       /\ ret[i].actual = OrNull(CmpA, p)
                       /\ ret[i].expected = OrNull(CmpB, p)
            ELSE RecordsAt(p) = {}

\* What the code does: a null leaf on one side and no such path on the
\* other side read the same, and give no record.
C7_NullIsAbsent ==
    pc = "done" =>
        \A p \in PathSet :
            IF (IsLeaf(CmpA, p) \/ IsLeaf(CmpB, p)) /\ OrNull(CmpA, p) # OrNull(CmpB, p)
            THEN /\ Cardinality(RecordsAt(p)) = 1
                 /\ \A i \in RecordsAt(p) :
                       /\ ret[i].actual = OrNull(CmpA, p)
                       /\ ret[i].expected = OrNull(CmpB, p)
            ELSE RecordsAt(p) = {}

(***************************************************************************)
(* Python's str() and repr() of a configuration value, as text.            *)
(***************************************************************************)
RECURSIVE JoinInts(_)
JoinInts(l) ==
    IF l = <<>> THEN ""
    ELSE IF Len(l) = 1 THEN ToString(l[1])
    ELSE ToString(l[1]) \o ", " \o JoinInts(Tail(l))

RECURSIVE pyrepr(_, _), ReprItems(_, _, _)
pyrepr(h, val) ==
    CASE val.t = "none" -> "None"
      [] val.t = "int" -> ToString(val.v)
      [] val.t = "str" -> "'" \o val.v \o "'"
      [] val.t = "list" -> "[" \o JoinInts(val.v) \o "]"
      [] val.t = "ref" -> "{" \o ReprItems(h, val.v, items(h[val.v])) \o "}"

ReprItems(h, a, ks) ==
    IF ks = <<>> THEN ""
    ELSE "'" \o Head(ks) \o "': " \o pyrepr(h, h[a][Head(ks)])
         \o (IF Len(ks) > 1 THEN ", " ELSE "") \o ReprItems(h, a, Tail(ks))

pystr(h, val) == IF val.t = "str" THEN val.v ELSE pyrepr(h, val)

(***************************************************************************)
(* config_merger.detect_conflicts.  configs is a list of records           *)
(* [source, priority, config], config the address of the source's dict.    *)
(***************************************************************************)
RECURSIVE detect_all_paths(_, _)
\* all_paths = set(); for config_item in configs: all_paths.update(...)
detect_all_paths(h, configs) ==
    IF configs = <<>> THEN {}
    ELSE Range(get_all_paths(h, Head(configs).config, <<>>))
         \cup detect_all_paths(h, Tail(configs))

RECURSIVE values_by_source(_, _, _)
\* The entries of the sources whose value at the path is not None, in order.
values_by_source(h, configs, path) ==
    IF configs = <<>> THEN <<>>
    ELSE LET config_item == Head(configs)
             value == get_value_at_path(h, config_item.config, path)
         IN  (IF value # NoneV
              THEN <<[priority |-> config_item.priority,
                      value |-> value,
                      source |-> config_item.source]>>
              ELSE <<>>)
             \o values_by_source(h, Tail(configs), path)

\* Mutant: min instead of max.
highest_lowest(vbs) ==
    vbs[CHOOSE i \in DOMAIN vbs :
            /\ \A j \in DOMAIN vbs : vbs[j].priority >= vbs[i].priority
            /\ \A j \in 1..(i - 1) : vbs[j].priority > vbs[i].priority]

\* max(values_by_source, key=priority): the first entry of maximal priority.
highest(vbs) ==
    vbs[CHOOSE i \in DOMAIN vbs :
            /\ \A j \in DOMAIN vbs : vbs[j].priority <= vbs[i].priority
            /\ \A j \in 1..(i - 1) : vbs[j].priority < vbs[i].priority]

unique_values(h, vbs) == {pystr(h, vbs[i].value) : i \in DOMAIN vbs}

\* One iteration of "for path in all_paths":
\* [h |-> heap after, conflicts |-> list after, raised |-> TypeError raised]
detect_path(h, configs, merged_config, conflicts, path) ==
    LET vbs == values_by_source(h, configs, path)
    IN  IF Cardinality(unique_values(h, vbs)) > 1
        THEN LET s == set_value_at_path(h, merged_config, path, highest(vbs).value)
             IN  [h |-> s.h,
                  conflicts |-> Append(conflicts,
                      [path |-> path,
                       sources |-> [i \in DOMAIN vbs |-> vbs[i].source],
                       values |-> [i \in DOMAIN vbs |-> vbs[i].value],
                       resolution |-> "use_highest_priority"]),
                  raised |-> s.raised]
        ELSE IF vbs # <<>>
        THEN LET s == set_value_at_path(h, merged_config, path, vbs[1].value)
             IN  [h |-> s.h, conflicts |-> conflicts, raised |-> s.raised]
        ELSE [h |-> h, conflicts |-> conflicts, raised |-> FALSE]

(***************************************************************************)
(* Specification SpecConflicts: detect_conflicts on three sources.  The    *)
(* loop over the set all_paths takes the paths in any order.               *)
(***************************************************************************)
Priorities == {0, 10, 20}
SourceNames == <<"s1", "s2", "s3">>
ConflictLeaves == {NoneV, IntV(1), IntV(2), StrV("1")}
ConflictInner ==
    {m \in MapsOver(Keys, {IntV(1), IntV(2)}) : "a" \in DOMAIN m => m["a"] = IntV(1)}
ConflictTrees == MapsOver({"a"}, ConflictLeaves \cup {MapV(m) : m \in ConflictInner})

InitConflicts ==
    /\ \E T \in [1..3 -> ConflictTrees], P \in [1..3 -> Priorities] :
          LET s1 == StoreTree(<<>>, T[1])
              s2 == StoreTree(s1.h, T[2])
              s3 == StoreTree(s2.h, T[3])
              addr == <<s1.r, s2.r, s3.r>>
          IN  /\ heap = s3.h
              /\ args = [configs |-> [i \in 1..3 |->
                            [source |-> SourceNames[i],
                             priority |-> P[i],
                             config |-> addr[i]]]]
    /\ heap0 = heap
    /\ pc = "call"
    /\ ret = NoResult
    /\ todo = {}
    /\ acc = <<>>

\* conflicts = []; merged_config = {}; all_paths = ...
DetectCall ==
    /\ pc = "call"
    /\ heap' = Append(heap, EmptyDict)
    /\ acc' = [merged_config |-> Len(heap) + 1, conflicts |-> <<>>]
    /\ todo' = detect_all_paths(heap, args.configs)
    /\ pc' = "loop"
    /\ UNCHANGED <<heap0, args, ret>>

DetectPath ==
    /\ pc = "loop"
    /\ \E path \in todo :
          LET d == detect_path(heap, args.configs, acc.merged_config, acc.conflicts, path)
          IN  /\ heap' = d.h
              /\ acc' = [acc EXCEPT !.conflicts = d.conflicts]
              /\ todo' = todo \ {path}
              /\ pc' = IF d.raised THEN "raised" ELSE "loop"
              /\ ret' = IF d.raised THEN [t |-> "TypeError", v |-> 0] ELSE ret
    /\ UNCHANGED <<heap0, args>>

DetectReturn ==
    /\ pc = "loop"
    /\ todo = {}
    /\ ret' = [merged_config |-> acc.merged_config, conflicts |-> acc.conflicts]
    /\ pc' = "done"
    /\ UNCHANGED <<heap, heap0, args, todo, acc>>

NextConflicts == DetectCall \/ DetectPath \/ DetectReturn

SpecConflicts == InitConflicts /\ [][NextConflicts]_vars

\* The configuration of source i as it was passed in, and the result.
SrcTree(i) == Tree(heap0, args.configs[i].config)
Merged == Tree(heap, ret.merged_config)
Sources == DOMAIN args.configs
\* Source i defines path p: it holds a value other than null there.
Defines(i, p) == Present(SrcTree(i), p) /\ Lookup(SrcTree(i), p) # NoneV
Defining(p) == {i \in Sources : Defines(i, p)}
\* p is a leaf path of some source.
UnionLeaf(p) == \E i \in Sources : IsLeaf(SrcTree(i), p)
\* The distinct values contributed at p, told apart by their string form.
StrAt(i, p) == pystr(heap0, get_value_at_path(heap0, args.configs[i].config, p))
DistinctAt(p) == {StrAt(i, p) : i \in Defining(p)}
TopPriority(p) ==
    {i \in Defining(p) :
        \A j \in Defining(p) : args.configs[j].priority <= args.configs[i].priority}
ConflictsAt(p) == {c \in DOMAIN ret.conflicts : ret.conflicts[c].path = p}

(***************************************************************************)
(* C2 as stated: at every leaf path where the sources defining it          *)
(* contribute more than one distinct value, the merged configuration       *)
(* returned by detect_conflicts holds the value of a source of maximal     *)
(* priority among the sources defining the path.  (Read in the code's      *)
(* favour: a null value does not define a path, and values are distinct    *)
(* when their string forms are.)                                           *)
(***************************************************************************)
C2_AsStated ==
    pc = "done" =>
        \A p \in PathSet :
            (UnionLeaf(p) /\ Cardinality(DistinctAt(p)) > 1)
                => \E i \in TopPriority(p) : Lookup(Merged, p) = Lookup(SrcTree(i), p)

(***************************************************************************)
(* C3 as stated: detect_conflicts records exactly one Conflict, with       *)
(* resolution use_highest_priority, for each leaf path at which the        *)
(* sources defining it contribute two or more distinct values, and none    *)
(* for any other path; at a path with exactly one distinct value the       *)
(* merged configuration holds that value.  (Same reading as C2.)           *)
(***************************************************************************)
C3_AsStated ==
    pc = "done" =>
        \A p \in PathSet :
            /\ IF UnionLeaf(p) /\ Cardinality(DistinctAt(p)) > 1
               THEN /\ Cardinality(ConflictsAt(p)) = 1
                    /\ \A c \in ConflictsAt(p) :
                          ret.conflicts[c].resolution = "use_highest_priority"
               ELSE ConflictsAt(p) = {}
            /\ (UnionLeaf(p) /\ Cardinality(DistinctAt(p)) = 1)
                   => \E i \in Defining(p) :
                         pystr(heap, get_value_at_path(heap, ret.merged_config, p)) = StrAt(i, p)

\* The Conflict records alone are as C3 states.
C3_RecordsOnly ==
    pc = "done" =>
        \A p \in PathSet :
            IF UnionLeaf(p) /\ Cardinality(DistinctAt(p)) > 1
            THEN /\ Cardinality(ConflictsAt(p)) = 1
                 /\ \A c \in ConflictsAt(p) :
                       ret.conflicts[c].resolution = "use_highest_priority"
            ELSE ConflictsAt(p) = {}

(***************************************************************************)
(* detect_conflicts and get_effective_config as whole calls.  The order in *)
(* which the loop visits the set all_paths is not fixed, so a call has a   *)
(* set of possible outcomes:                                               *)
(*   [h, merged_config, conflicts, raised].                                *)
(***************************************************************************)
RECURSIVE DetectRuns(_, _, _, _, _)
DetectRuns(h, configs, merged_config, conflicts, paths) ==
    IF paths = {}
    THEN {[h |-> h, merged_config |-> merged_config, conflicts |-> conflicts,
           raised |-> FALSE]}
    ELSE UNION {
        LET d == detect_path(h, configs, merged_config, conflicts, path)
        IN  IF d.raised
            THEN {[h |-> d.h, merged_config |-> merged_config,
                   conflicts |-> d.conflicts, raised |-> TRUE]}
            ELSE DetectRuns(d.h, configs, merged_config, d.conflicts, paths \ {path})
        : path \in paths}

detect_conflicts(h, configs) ==
    DetectRuns(Append(h, EmptyDict), configs, Len(h) + 1, <<>>,
               detect_all_paths(h, configs))

RECURSIVE ApplyResolutions(_, _, _, _)
\* for path, value in resolutions.items(): set_value_at_path(merged_config, path, value)
\* resolutions is a list of [path, value] in the dict's order.
ApplyResolutions(h, merged_config, resolutions, i) ==
    IF i > Len(resolutions)
    THEN [h |-> h, merged_config |-> merged_config, raised |-> FALSE]
    ELSE LET s == set_value_at_path(h, merged_config, resolutions[i].path,
                                    resolutions[i].value)
         IN  IF s.raised
             THEN [h |-> s.h, merged_config |-> merged_config, raised |-> TRUE]
             ELSE ApplyResolutions(s.h, merged_config, resolutions, i + 1)

get_effective_config(h, configs, resolutions) ==
    {IF d.raised
     THEN [h |-> d.h, merged_config |-> d.merged_config, raised |-> TRUE]
     ELSE ApplyResolutions(d.h, d.merged_config, resolutions, 1)
     : d \in detect_conflicts(h, configs)}

\* compare_configs as a whole call; only the order of the list depends on
\* the order of the loop, and "if drift" reads whether it is empty.
RECURSIVE CompareRun(_, _, _, _, _)
CompareRun(h, actual, expected, differences, paths) ==
    IF paths = {} THEN differences
    ELSE LET path == CHOOSE q \in paths : TRUE
         IN  CompareRun(h, actual, expected,
                        compare_path(h, actual, expected, differences, path),
                        paths \ {path})

compare_configs(h, actual, expected) ==
    CompareRun(h, actual, expected, <<>>, compare_all_paths(h, actual, expected))

(***************************************************************************)
(* eval_old.py: rule evaluation with the hierarchical configuration.       *)
(*                                                                         *)
(* A resource is [arn, resource_type, config, metadata,                   *)
(* compliance_status], a rule is [id, resource_type, check, selector], a   *)
(* group is [name,                                                         *)
(* resource_type, selector, priority, config_overrides], a base config is  *)
(* [resource_type, config]; config fields are heap addresses.  eval_old    *)
(* reads base_config_obj.config and group.config_overrides, while the      *)
(* BaseConfig and ResourceGroup that from_dynamodb builds in               *)
(* config_models.py declare desired_config only: table.declared says which *)
(* attribute names the fetched objects carry, and with "desired_config"    *)
(* the reads raise AttributeError.                                         *)
(***************************************************************************)
\* dict.get(key): None when the key is missing.
DictGet(d, key) == IF key \in DOMAIN d THEN d[key] ELSE NoneV

(***************************************************************************)
(* Regular expressions.  A pattern and the text it is matched against are  *)
(* sequences of one-character strings (TextV as a value).  The generated patterns are written *)
(* with literal characters, "." and "*": a character or "." is an atom, a  *)
(* "*" repeats the atom before it, and a "*" with no atom before it or     *)
(* after another "*" does not compile (re.error).                          *)
(***************************************************************************)
\* A string value held as its sequence of characters.
TextV(chars) == [t |-> "text", v |-> chars]

RECURSIVE RegexAtoms(_, _)
\* re.compile from position i: [ok, atoms], the atoms being [c, star] each;
\* ok is FALSE when the pattern does not compile.
RegexAtoms(pattern, i) ==
    IF i > Len(pattern) THEN [ok |-> TRUE, atoms |-> <<>>]
    ELSE IF pattern[i] = "*" THEN [ok |-> FALSE, atoms |-> <<>>]
    ELSE LET star == i < Len(pattern) /\ pattern[i + 1] = "*"
             rest == RegexAtoms(pattern, IF star THEN i + 2 ELSE i + 1)
         IN  [ok |-> rest.ok,
              atoms |-> <<[c |-> pattern[i], star |-> star]>> \o rest.atoms]

RECURSIVE MatchHere(_, _, _, _)
\* Whether the atoms from i on match a prefix of text[j..].
MatchHere(atoms, i, text, j) ==
    IF i > Len(atoms) THEN TRUE
    ELSE LET one == j <= Len(text) /\ (atoms[i].c = "." \/ atoms[i].c = text[j])
         IN  IF atoms[i].star
             THEN MatchHere(atoms, i + 1, text, j)
                  \/ (one /\ MatchHere(atoms, i, text, j + 1))
             ELSE one /\ MatchHere(atoms, i + 1, text, j + 1)

\* re.match(pattern, text): a match anchored at the start of the text, as
\* [raised, r].
re_match(pattern, text) ==
    LET compiled == RegexAtoms(pattern, 1)
    IN  IF ~compiled.ok THEN [raised |-> TRUE, r |-> FALSE]
        ELSE [raised |-> FALSE, r |-> MatchHere(compiled.atoms, 1, text, 1)]

\* The index of the last occurrence of ch in text, 0 when there is none.
LastIndex(text, ch) ==
    LET at == {i \in DOMAIN text : text[i] = ch}
    IN  IF at = {} THEN 0 ELSE CHOOSE i \in at : \A j \in at : j <= i

\* arn.split("/")[-1] if "/" in arn else arn.split(":")[-1]
name_of_arn(arn) ==
    LET cut == IF LastIndex(arn, "/") > 0 THEN LastIndex(arn, "/")
               ELSE LastIndex(arn, ":")
    IN  SubSeq(arn, cut + 1, Len(arn))

\* {tag.get("Key"): tag.get("Value") for tag in resource_tags}: a later
\* entry of the list replaces an earlier one with the same key.
TagListToDict(l) ==
    LET keyed(k) == {i \in DOMAIN l : DictGet(l[i].v, "Key") = StrV(k)}
        ks == {DictGet(l[i].v, "Key").v : i \in {j \in DOMAIN l : DictGet(l[j].v, "Key").t = "str"}}
    IN  [k \in ks |-> DictGet(l[CHOOSE i \in keyed(k) : \A j \in keyed(k) : j <= i].v, "Value")]

\* resource.metadata.get("Tags", {}), a list converted to a dict.
resource_tags(resource) ==
    LET raw == IF "Tags" \in DOMAIN resource.metadata
               THEN resource.metadata["Tags"] ELSE MapV(EmptyDict)
    IN  IF raw.t = "list" THEN TagListToDict(raw.v) ELSE raw.v

\* matches_selector(resource, selector) as [raised, r].  A selector is None
\* or a mapping; the resource and the selector are only read.
matches_selector(resource, selector) ==
    IF selector.t = "none" \/ DOMAIN selector.v = {}
    THEN [raised |-> FALSE, r |-> TRUE]
    ELSE IF "tags" \in DOMAIN selector.v
            /\ \E key \in DOMAIN selector.v.tags.v :
                   DictGet(resource_tags(resource), key) # selector.v.tags.v[key]
    THEN [raised |-> FALSE, r |-> FALSE]
    ELSE LET am == IF "arn_pattern" \in DOMAIN selector.v
                   THEN re_match(selector.v.arn_pattern.v, resource.arn)
                   ELSE [raised |-> FALSE, r |-> TRUE]
             nm == IF "name_pattern" \in DOMAIN selector.v
                   THEN re_match(selector.v.name_pattern.v, name_of_arn(resource.arn))
                   ELSE [raised |-> FALSE, r |-> TRUE]
         IN  IF am.raised THEN am
             ELSE IF ~am.r THEN am
             ELSE nm

\* table.get_item(PK = BASE_CONFIG#<resource_type>, SK = v1); a ClientError
\* is logged and gives None.
fetch_base_config(table, resource_type) ==
    IF table.client_error THEN NoneV
    ELSE DictGet(table.base, resource_type)

RECURSIVE SelectGroups(_, _)
SelectGroups(its, resource) ==
    IF its = <<>> THEN <<>>
    ELSE (IF Head(its).resource_type = resource.resource_type
             /\ matches_selector(resource, Head(its).selector).r
          THEN <<Head(its)>> ELSE <<>>)
         \o SelectGroups(Tail(its), resource)

RECURSIVE InsertByPriority(_, _)
\* Insert g after the entries whose priority is not greater (a stable sort).
InsertByPriority(sorted, g) ==
    IF sorted = <<>> THEN <<g>>
    ELSE IF Head(sorted).priority <= g.priority
    THEN <<Head(sorted)>> \o InsertByPriority(Tail(sorted), g)
    ELSE <<g>> \o sorted

RECURSIVE SortByPriority(_)
\* matching_groups.sort(key=lambda g: g.priority)
SortByPriority(gs) ==
    IF gs = <<>> THEN <<>>
    ELSE InsertByPriority(SortByPriority(SubSeq(gs, 1, Len(gs) - 1)), gs[Len(gs)])

\* The groups of the resource's type whose selector matches, lowest
\* priority first; a ClientError is logged and gives [].
fetch_matching_groups(table, resource) ==
    IF table.client_error THEN <<>>
    ELSE SortByPriority(SelectGroups(table.groups, resource))

\* Finding.create(tenant_id, rule, resource, observed, expected)
Finding_create(h, rule, resource, observed, expected) ==
    [t |-> "finding",
     rule_id |-> rule.id,
     resource_arn |-> resource.arn,
     observed |-> Abs(h, observed),
     expected |-> Abs(h, expected),
     metadata |-> NoneV]

\* Build list of configs to merge (eval_old.py lines 390-405).
build_configs(resource, base_config_obj, matching_groups) ==
    (IF base_config_obj # NoneV
     THEN <<[source |-> "base:" \o resource.resource_type,
             priority |-> 0,
             config |-> base_config_obj.config]>>
     ELSE <<>>)
    \o [i \in 1..Len(matching_groups) |->
           [source |-> "group:" \o matching_groups[i].name,
            priority |-> matching_groups[i].priority,
            config |-> matching_groups[i].config_overrides]]

NoLocals == [t |-> "nolocals", v |-> 0]

\* The possible outcomes of evaluate_with_hierarchical_config:
\* [h, finding, conflicts, raised, locals], locals recording the call's
\* base_config_obj, matching_groups, effective_config and drift.
evaluate_with_hierarchical_config(h, resource, rule, table) ==
    LET base_config_obj == fetch_base_config(table, resource.resource_type)
        matching_groups == fetch_matching_groups(table, resource)
        configs == build_configs(resource, base_config_obj, matching_groups)
        Locals(hh, eff, drift) ==
                           [t |-> "locals",
                            resource |-> resource.arn,
                            base |-> IF base_config_obj = NoneV THEN NoneV
                                     ELSE MapV(Tree(h, base_config_obj.config)),
                            groups |-> [i \in 1..Len(matching_groups) |->
                                          [priority |-> matching_groups[i].priority,
                                           config |-> Tree(h, matching_groups[i].config_overrides)]],
                            effective |-> IF eff = 0 THEN NoneV ELSE MapV(Tree(hh, eff)),
                            drift |-> drift]
    IN  IF base_config_obj = NoneV /\ matching_groups = <<>>
        THEN {[h |-> h, finding |-> NoneV, conflicts |-> <<>>, raised |-> FALSE,
               locals |-> Locals(h, 0, <<>>)]}
        ELSE IF table.declared # "config"
        THEN \* AttributeError while building the list of configs
             {[h |-> h, finding |-> NoneV, conflicts |-> <<>>, raised |-> TRUE,
               locals |-> Locals(h, 0, <<>>)]}
        ELSE UNION {
            IF d.raised
            THEN {[h |-> d.h, finding |-> NoneV, conflicts |-> <<>>, raised |-> TRUE,
                   locals |-> Locals(d.h, 0, <<>>)]}
            ELSE {IF e.raised
                  THEN [h |-> e.h, finding |-> NoneV, conflicts |-> <<>>, raised |-> TRUE,
                        locals |-> Locals(e.h, 0, <<>>)]
                  ELSE LET drift == compare_configs(e.h, e.merged_config, resource.config)
                       IN  [h |-> e.h,
                            finding |-> IF drift # <<>>
                                        THEN [Finding_create(e.h, rule, resource,
                                                  Ref(resource.config), Ref(e.merged_config))
                                              EXCEPT !.metadata =
                                                  [drift |-> drift,
                                                   applied_configs |->
                                                       [i \in DOMAIN configs |-> configs[i].source],
                                                   conflict_count |-> Len(d.conflicts)]]
                                        ELSE NoneV,
                            conflicts |-> d.conflicts,
                            raised |-> FALSE,
                            locals |-> Locals(e.h, e.merged_config, drift)]
                  : e \in get_effective_config(d.h, configs, <<>>)}
            : d \in detect_conflicts(h, configs)}

\* The generated golden-config rules have an empty path: observed is the
\* whole resource configuration.
evaluate_golden_config(h, resource, rule) ==
    LET observed == Ref(resource.config)
        expected == rule.check.expected
    IN  IF ~PyEq(h, observed, expected)
        THEN Finding_create(h, rule, resource, observed, expected)
        ELSE NoneV

\* The possible outcomes of evaluate_rule: [h, finding, locals].
evaluate_rule(h, resource, rule, table, use_hierarchical) ==
    IF resource.resource_type # rule.resource_type
    THEN {[h |-> h, finding |-> NoneV, locals |-> NoLocals]}
    ELSE IF ~matches_selector(resource, rule.selector).r
    THEN {[h |-> h, finding |-> NoneV, locals |-> NoLocals]}
    ELSE IF rule.check.type = "golden-config" /\ use_hierarchical /\ table.table_name
    THEN {IF o.raised
          THEN \* except Exception: fall back to traditional evaluation
               [h |-> o.h, finding |-> evaluate_golden_config(o.h, resource, rule),
                locals |-> o.locals]
          ELSE [h |-> o.h, finding |-> o.finding, locals |-> o.locals]
          : o \in evaluate_with_hierarchical_config(h, resource, rule, table)}
    ELSE IF rule.check.type = "golden-config"
    THEN {[h |-> h, finding |-> evaluate_golden_config(h, resource, rule),
           locals |-> NoLocals]}
    ELSE \* Unknown check type: logged, no finding
         {[h |-> h, finding |-> NoneV, locals |-> NoLocals]}

(***************************************************************************)
(* evaluate_resources of eval_old.py over a small tenant: two S3 buckets   *)
(* (one tagged env=prod), two golden-config rules, a table that may hold a *)
(* base configuration for the bucket type and holds two resource groups.   *)
(***************************************************************************)
S3 == "AWS::S3::Bucket"
IAM == "AWS::IAM::Policy"

ResourceConfs == {[a |-> IntV(1)], [a |-> IntV(2)]}
BaseConfs == {[a |-> IntV(1)], [a |-> IntV(2)]}
GroupConfs == {[a |-> IntV(2)], [a |-> MapV([b |-> IntV(1)])]}
GroupPriorities == {-1, 0, 100}
ProdSelector == MapV([tags |-> MapV([env |-> StrV("prod")])])
EmptySelector == MapV(EmptyDict)

RECURSIVE StoreAll(_, _)
\* Allocate the trees of a list; gives [h, r] with r the list of addresses.
StoreAll(h, trees) ==
    IF trees = <<>> THEN [h |-> h, r |-> <<>>]
    ELSE LET s == StoreTree(h, Head(trees))
             rest == StoreAll(s.h, Tail(trees))
         IN  [h |-> rest.h, r |-> <<s.r>> \o rest.r]

InitEval ==
    \E rc1 \in ResourceConfs, rc2 \in ResourceConfs,
       bc \in BaseConfs \cup {EmptyDict}, has_base \in BOOLEAN,
       gc1 \in GroupConfs, gc2 \in GroupConfs,
       gp1 \in GroupPriorities, gp2 \in GroupPriorities,
       gt1 \in {S3, IAM}, rt2 \in {S3, IAM},
       use_hierarchical \in BOOLEAN, client_error \in BOOLEAN,
       declared \in {"config", "desired_config"} :
        /\ (~has_base) => bc = EmptyDict
        /\ has_base => bc # EmptyDict
        /\ LET st == StoreAll(<<>>, <<rc1, rc2, bc, gc1, gc2, [a |-> IntV(1)]>>)
               resources ==
                   <<[arn |-> "arn:r1", resource_type |-> S3, config |-> st.r[1],
                      metadata |-> [Tags |-> MapV([env |-> StrV("prod")])],
                      compliance_status |-> "NOT_EVALUATED"],
                     [arn |-> "arn:r2", resource_type |-> S3, config |-> st.r[2],
                      metadata |-> EmptyDict,
                      compliance_status |-> "NOT_EVALUATED"]>>
               rules ==
                   <<[id |-> "rule1", resource_type |-> S3, selector |-> EmptySelector,
                      check |-> [type |-> "golden-config", expected |-> Ref(st.r[6])]],
                     [id |-> "rule2", resource_type |-> rt2, selector |-> EmptySelector,
                      check |-> [type |-> "golden-config", expected |-> Ref(st.r[6])]]>>
               table ==
                   [table_name |-> TRUE,
                    client_error |-> client_error,
                    declared |-> declared,
                    base |-> IF has_base
                             THEN (S3 :> [resource_type |-> S3, config |-> st.r[3]])
                             ELSE [x \in {} |-> NoneV],
                    groups |-> <<[name |-> "g1", resource_type |-> gt1,
                                  selector |-> EmptySelector,
                                  priority |-> gp1, config_overrides |-> st.r[4]],
                                 [name |-> "g2", resource_type |-> S3,
                                  selector |-> ProdSelector,
                                  priority |-> gp2, config_overrides |-> st.r[5]]>>]
           IN  /\ heap = st.h
               /\ heap0 = st.h
               /\ args = [resources |-> resources, rules |-> rules, table |-> table,
                          use_hierarchical |-> use_hierarchical]
        /\ pc = "start"
        /\ ret = NoResult
        /\ todo = {}
        /\ acc = NoResult

\* findings = []; the loops start at the first resource and the first rule.
EvalCall ==
    /\ pc = "start"
    /\ pc' = "loop"
    /\ acc' = [r |-> 1, k |-> 1, findings |-> <<>>, calls |-> <<>>]
    /\ UNCHANGED <<heap, heap0, args, ret, todo>>

\* One turn of "for resource in resources: for rule in rules".
EvalPair ==
    /\ pc = "loop"
    /\ acc.r <= Len(args.resources)
    /\ \E o \in evaluate_rule(heap, args.resources[acc.r], args.rules[acc.k],
                              args.table, args.use_hierarchical) :
        /\ heap' = o.h
        /\ acc' = [r |-> IF acc.k = Len(args.rules) THEN acc.r + 1 ELSE acc.r,
                   k |-> IF acc.k = Len(args.rules) THEN 1 ELSE acc.k + 1,
                   findings |-> IF o.finding # NoneV
                                THEN Append(acc.findings, o.finding)
                                ELSE acc.findings,
                   calls |-> IF o.locals # NoLocals
                             THEN Append(acc.calls, o.locals)
                             ELSE acc.calls]
    /\ UNCHANGED <<heap0, pc, args, ret, todo>>

\* return findings
EvalReturn ==
    /\ pc = "loop"
    /\ acc.r > Len(args.resources)
    /\ pc' = "done"
    /\ ret' = acc.findings
    /\ UNCHANGED <<heap, heap0, args, todo, acc>>

NextEval == EvalCall \/ EvalPair \/ EvalReturn

SpecEval == InitEval /\ [][NextEval]_vars

(***************************************************************************)
(* Claims about the hierarchical evaluation (SpecEval).                    *)
(***************************************************************************)
EvalRunning == pc \in {"loop", "done"}
EvalCalls == IF EvalRunning THEN acc.calls ELSE <<>>
\* The groups of a call that define p as a leaf.
Definers(c, p) == {j \in DOMAIN c.groups : IsLeaf(c.groups[j].config, p)}
\* No group of the call reaches p.
GroupsMiss(c, p) == \A j \in DOMAIN c.groups : Lookup(c.groups[j].config, p) = Missing
\* The findings of the finished run for an arn.
FindingsFor(arn) == {j \in DOMAIN ret : ret[j].resource_arn = arn}
CallsFor(arn) == {i \in DOMAIN acc.calls : acc.calls[i].resource = arn}

C4_AsStated ==
    (pc = "done" /\ args.use_hierarchical /\ S3 \notin DOMAIN args.table.base) =>
        \A i \in DOMAIN args.resources :
            /\ args.resources[i].compliance_status = "NOT_EVALUATED"
            /\ FindingsFor(args.resources[i].arn) = {}

\* C5: after a hierarchical run every resource has at most one finding, and
\* has one exactly when an evaluation of it found differences between its
\* configuration and the effective configuration.
C5_AsStated ==
    (pc = "done" /\ args.use_hierarchical) =>
        \A i \in DOMAIN args.resources :
            LET arn == args.resources[i].arn
            IN  /\ Cardinality(FindingsFor(arn)) <= 1
                /\ (FindingsFor(arn) # {}) <=>
                       (\E k \in CallsFor(arn) : acc.calls[k].drift # <<>>)

(***************************************************************************)
(* The drift and compliance scorer of the evaluation orchestrator.         *)
(*                                                                         *)
(* scan_handler/app.py calls evaluate_resources(tenant_id, resources,      *)
(* table_name) and reads compliance_status from the resources it returns;  *)
(* the body of that orchestrator is described by spec.md section 4.5       *)
(* (steps 1, 6 and 7).  A resource object is a heap cell holding the       *)
(* compliance fields of models.Resource; drift_score is kept in tenths,    *)
(* which is exact for count / 10.0 capped at 1.0.                          *)
(***************************************************************************)
MaxDiffs == 12

\* The compliance fields of a freshly collected Resource.
NewResource ==
    [compliance_status |-> "NOT_EVALUATED", drift_score |-> 0, findings_count |-> 0]

Min(x, y) == IF x <= y THEN x ELSE y

drift_uncapped(count) == count
\* drift_score = min(1.0, count(differences) / 10.0), in tenths.
drift_score_of(count) == Min(10, count)

\* LOW if <= 5 differences, MEDIUM if 6-10, HIGH if > 10.
severity_of(count) ==
    IF count <= 5 THEN "LOW" ELSE IF count <= 10 THEN "MEDIUM" ELSE "HIGH"

\* Steps 1, 6 and 7 for one resource: the scored resource and its finding.
score_resource(resource, has_base, count) ==
    IF ~has_base
    THEN [resource |-> [resource EXCEPT !.compliance_status = "NOT_EVALUATED"],
          finding |-> NoneV]
    ELSE IF count = 0
    THEN [resource |-> [resource EXCEPT !.compliance_status = "COMPLIANT",
                                        !.drift_score = 0],
          finding |-> NoneV]
    ELSE [resource |-> [resource EXCEPT !.compliance_status = "NON_COMPLIANT",
                                        !.drift_score = drift_score_of(count),
                                        !.findings_count = 1],
          finding |-> [t |-> "finding",
                       severity |-> severity_of(count),
                       difference_count |-> count,
                       drift_score |-> drift_score_of(count)]]

InitScore ==
    \E n1 \in 0..MaxDiffs, n2 \in 0..MaxDiffs, b1 \in BOOLEAN, b2 \in BOOLEAN :
        /\ heap = <<NewResource, NewResource>>
        /\ heap0 = heap
        /\ args = [differences |-> <<n1, n2>>, has_base |-> <<b1, b2>>]
        /\ pc = "start"
        /\ ret = NoResult
        /\ todo = {}
        /\ acc = NoResult

ScoreCall ==
    /\ pc = "start"
    /\ pc' = "loop"
    /\ acc' = [i |-> 1, findings |-> [k \in 1..Len(heap) |-> NoneV]]
    /\ UNCHANGED <<heap, heap0, args, ret, todo>>

ScoreResource ==
    /\ pc = "loop"
    /\ acc.i <= Len(heap)
    /\ LET s == score_resource(heap[acc.i], args.has_base[acc.i],
                               args.differences[acc.i])
       IN  /\ heap' = [heap EXCEPT ![acc.i] = s.resource]
           /\ acc' = [i |-> acc.i + 1,
                      findings |-> [acc.findings EXCEPT ![acc.i] = s.finding]]
    /\ UNCHANGED <<heap0, pc, args, ret, todo>>

ScoreReturn ==
    /\ pc = "loop"
    /\ acc.i > Len(heap)
    /\ pc' = "done"
    /\ ret' = acc.findings
    /\ UNCHANGED <<heap, heap0, args, todo, acc>>

NextScore == ScoreCall \/ ScoreResource \/ ScoreReturn

SpecScore == InitScore /\ [][NextScore]_vars

\* The resources the loop has already scored.
Scored == IF pc = "start" THEN {}
          ELSE {i \in DOMAIN heap : i < acc.i /\ args.has_base[i]}

\* C6: a scored resource with n = 0 differences is COMPLIANT with drift
\* score 0.0 and no finding; with n > 0 it is NON_COMPLIANT with drift score
\* min(1.0, n/10) and a finding of severity LOW for 1..5, MEDIUM for 6..10,
\* HIGH above 10; the drift score of every resource stays within [0.0, 1.0].
C6_Scoring ==
    /\ \A i \in DOMAIN heap : heap[i].drift_score \in 0..10
    /\ \A i \in Scored :
        LET n == args.differences[i]
        IN  /\ n = 0 => /\ heap[i].compliance_status = "COMPLIANT"
                        /\ heap[i].drift_score = 0
                        /\ acc.findings[i] = NoneV
            /\ n > 0 => /\ heap[i].compliance_status = "NON_COMPLIANT"
                        /\ heap[i].drift_score = (IF n >= 10 THEN 10 ELSE n)
                        /\ acc.findings[i] # NoneV
                        /\ n \in 1..5 => acc.findings[i].severity = "LOW"
                        /\ n \in 6..10 => acc.findings[i].severity = "MEDIUM"
                        /\ n > 10 => acc.findings[i].severity = "HIGH"

\* A finished run that scored one resource with a single difference (0.1,
\* LOW) and one with more than ten (1.0, HIGH).
C6_Witness ==
    /\ pc = "done"
    /\ Scored = {1, 2}
    /\ args.differences[1] = 1
    /\ heap[1].drift_score = 1
    /\ ret[1].severity = "LOW"
    /\ args.differences[2] > 10
    /\ heap[2].drift_score = 10
    /\ ret[2].severity = "HIGH"

(***************************************************************************)
(* Specification SpecSelector: matches_selector on generated resources and *)
(* selectors.  ARNs are short texts over "p", "/" and ":"; tags are absent,*)
(* a mapping or a list of Key/Value entries; a selector is None or a       *)
(* mapping that may hold tags, arn_pattern, name_pattern and a key the     *)
(* matcher does not know.                                                  *)
(***************************************************************************)
MaxArnLen == 2
MaxPatternLen == 2

TextsOver(chars, n) == UNION {[1..k -> chars] : k \in 0..n}
Arns == TextsOver({"p", "/", ":"}, MaxArnLen) \ {<<>>}
Patterns ==
    {TextV(x) : x \in TextsOver({"p", "*"}, MaxPatternLen) \cup {<<".">>, <<".", "*">>}}

TagEntry(k, val) == MapV([Key |-> StrV(k), Value |-> val])
ResourceTagShapes ==
    {MapV([env |-> StrV("prod")]), MapV([env |-> StrV("dev")]),
     ListV(<<TagEntry("env", StrV("prod"))>>),
     ListV(<<TagEntry("env", StrV("prod")), TagEntry("env", StrV("dev"))>>)}
SelectorTags ==
    {MapV(EmptyDict), MapV([env |-> StrV("prod")]), MapV([env |-> NoneV])}

\* The mappings with some of the given keys, each key's value from its set.
Optionals(sets) ==
    UNION {{f \in [d -> UNION {sets[k] : k \in d}] : \A k \in d : f[k] \in sets[k]}
           : d \in SUBSET DOMAIN sets}

Selectors ==
    {NoneV} \cup
    {MapV(f) : f \in Optionals([tags |-> SelectorTags,
                                arn_pattern |-> Patterns,
                                name_pattern |-> Patterns,
                                owner |-> {StrV("x")}])}

InitSelector ==
    \E arn \in Arns, tagged \in BOOLEAN, tags \in ResourceTagShapes,
       selector \in Selectors :
        /\ tagged \/ tags = MapV([env |-> StrV("prod")])
        /\ args = [resource |-> [arn |-> arn,
                                 metadata |-> IF tagged THEN [Tags |-> tags]
                                              ELSE EmptyDict],
                   selector |-> selector]
        /\ heap = <<>>
        /\ heap0 = <<>>
        /\ pc = "call"
        /\ ret = NoResult
        /\ todo = {}
        /\ acc = NoResult

\* The call returns a boolean.
SelectorReturns ==
    /\ pc = "call"
    /\ ~matches_selector(args.resource, args.selector).raised
    /\ pc' = "done"
    /\ ret' = [t |-> "bool", v |-> matches_selector(args.resource, args.selector).r]
    /\ acc' = args
    /\ UNCHANGED <<heap, heap0, args, todo>>

\* re.match raises re.error out of the call.
SelectorRaises ==
    /\ pc = "call"
    /\ matches_selector(args.resource, args.selector).raised
    /\ pc' = "raised"
    /\ ret' = [t |-> "re.error", v |-> 0]
    /\ acc' = args
    /\ UNCHANGED <<heap, heap0, args, todo>>

NextSelector == SelectorReturns \/ SelectorRaises

SpecSelector == InitSelector /\ [][NextSelector]_vars

(***************************************************************************)
(* Claims about matches_selector (SpecSelector).                           *)
(***************************************************************************)
SelResource == args.resource
SelSelector == args.selector
SelHas(key) == SelSelector.t = "map" /\ key \in DOMAIN SelSelector.v
SelTrue == ret = [t |-> "bool", v |-> TRUE]
SelFalse == ret = [t |-> "bool", v |-> FALSE]
RawTags == IF "Tags" \in DOMAIN SelResource.metadata
           THEN SelResource.metadata["Tags"] ELSE MapV(EmptyDict)
\* The values the resource carries for a tag key, in either representation.
Carried(k) ==
    IF RawTags.t = "list"
    THEN {RawTags.v[i].v.Value : i \in {j \in DOMAIN RawTags.v : RawTags.v[j].v.Key = StrV(k)}}
    ELSE IF k \in DOMAIN RawTags.v THEN {RawTags.v[k]} ELSE {}
\* The value the normalized mapping holds for a key: a list's last entry.
CarriedLast(k) ==
    IF RawTags.t = "list"
    THEN LET at == {j \in DOMAIN RawTags.v : RawTags.v[j].v.Key = StrV(k)}
         IN  {RawTags.v[i].v.Value : i \in {j \in at : \A m \in at : m <= j}}
    ELSE Carried(k)
RequiredTags == IF SelHas("tags") THEN SelSelector.v.tags.v ELSE EmptyDict

\* C12: an empty or absent selector matches; a selector requiring a tag the
\* resource lacks, or carries only with other values, does not match,
\* whatever the required value and the representation of the tags.
C12_AsStated ==
    pc # "call" =>
        /\ (SelSelector.t = "none" \/ DOMAIN SelSelector.v = {}) => SelTrue
        /\ (\E k \in DOMAIN RequiredTags : RequiredTags[k] \notin Carried(k)) => SelFalse

\* What holds of the code: the same with the required values that are not
\* null.
C12_NonNullRequired ==
    pc # "call" =>
        /\ (SelSelector.t = "none" \/ DOMAIN SelSelector.v = {}) => SelTrue
        /\ (\E k \in DOMAIN RequiredTags :
               RequiredTags[k] # NoneV /\ RequiredTags[k] \notin Carried(k)) => SelFalse

TagsHold == \A k \in DOMAIN RequiredTags : RequiredTags[k] \in CarriedLast(k)
ArnHolds ==
    SelHas("arn_pattern") =>
        LET m == re_match(SelSelector.v.arn_pattern.v, SelResource.arn)
        IN  ~m.raised /\ m.r
NameHolds ==
    SelHas("name_pattern") =>
        LET m == re_match(SelSelector.v.name_pattern.v, name_of_arn(SelResource.arn))
        IN  ~m.raised /\ m.r

\* C13: the call returns true exactly when the tags, arn_pattern and
\* name_pattern predicates present in the selector all hold; other keys do
\* not count; the resource and the selector are as before the call.
C13_AsStated ==
    pc # "call" =>
        /\ SelTrue <=> (TagsHold /\ ArnHolds /\ NameHolds)
        /\ acc = args

\* What holds of the code: the same when no required tag value is null.
C13_NonNullRequired ==
    (pc # "call" /\ \A k \in DOMAIN RequiredTags : RequiredTags[k] # NoneV) =>
        /\ SelTrue <=> (TagsHold /\ ArnHolds /\ NameHolds)
        /\ acc = args

(***************************************************************************)
(* Specification SpecSetGet: set_value_at_path on a generated tree, then   *)
(* get_value_at_path of the same path.                                     *)
(***************************************************************************)
MaxPathLen == 3

SetPaths == UNION {[1..n -> Keys] : n \in 1..MaxPathLen}

InitSetGet ==
    \E T \in MergeTrees, path \in SetPaths, as_dict \in BOOLEAN,
       leaf \in {NoneV, IntV(1), ListV(<<1>>)} :
        LET st == StoreTree(<<>>, T)
            sv == StoreTree(st.h, [a |-> IntV(1)])
        IN  /\ as_dict => leaf = NoneV
            /\ heap = sv.h
            /\ heap0 = sv.h
            /\ args = [config |-> st.r, path |-> path,
                       value |-> IF as_dict THEN Ref(sv.r) ELSE leaf]
            /\ pc = "call"
            /\ ret = NoResult
            /\ todo = {}
            /\ acc = NoResult

\* set_value_at_path(config, path, value) returns.
SetValue ==
    /\ pc = "call"
    /\ LET s == set_value_at_path(heap, args.config, args.path, args.value)
       IN  /\ ~s.raised
           /\ heap' = s.h
    /\ pc' = "set"
    /\ UNCHANGED <<heap0, args, ret, todo, acc>>

\* set_value_at_path raises TypeError; what it assigned before stays.
SetValueRaises ==
    /\ pc = "call"
    /\ LET s == set_value_at_path(heap, args.config, args.path, args.value)
       IN  /\ s.raised
           /\ heap' = s.h
    /\ pc' = "raised"
    /\ ret' = [t |-> "TypeError", v |-> 0]
    /\ UNCHANGED <<heap0, args, todo, acc>>

\* get_value_at_path(config, path) on the tree that was set.
GetValue ==
    /\ pc = "set"
    /\ ret' = get_value_at_path(heap, args.config, args.path)
    /\ pc' = "done"
    /\ UNCHANGED <<heap, heap0, args, todo, acc>>

NextSetGet == SetValue \/ SetValueRaises \/ GetValue

SpecSetGet == InitSetGet /\ [][NextSetGet]_vars

SetTree0 == Tree(heap0, args.config)
\* A proper prefix of the path holds a value that is not a map.
LeafOnPath ==
    \E n \in 1..(Len(args.path) - 1) : IsLeaf(SetTree0, SubSeq(args.path, 1, n))

\* C14: setting a value at a path and getting the path returns the value,
\* the call never failing, also when a segment before the last holds a
\* value that is not a map.
C14_AsStated ==
    /\ pc # "raised"
    /\ pc = "done" => ret = args.value

\* What holds of the code: the round trip when no segment before the last
\* holds a non-map value, the missing levels being created as maps.
C14_MapsOnPath ==
    ~LeafOnPath =>
        /\ pc # "raised"
        /\ pc = "done" =>
              /\ ret = args.value
              /\ \A n \in 1..(Len(args.path) - 1) :
                    IsMapAt(Tree(heap, args.config), SubSeq(args.path, 1, n))

(***************************************************************************)
(* eval.get_nested.  The object is a value without heap (nothing is        *)
(* assigned): MapV, ListV of values, IntV, StrV, NoneV.  A path is the     *)
(* sequence of its dot-separated parts, a part being [key, star] with star *)
(* for a part written key[*]; the empty path is the empty sequence.        *)
(***************************************************************************)
Part(k, star) == [key |-> k, star |-> star]

\* parts.index(part): the first position holding an equal part.
IndexOf(parts, part) ==
    CHOOSE i \in DOMAIN parts :
        parts[i] = part /\ \A j \in DOMAIN parts : parts[j] = part => i <= j

RECURSIVE get_nested(_, _), NestedWalk(_, _, _)

\* Mutant: a [*] part on a value that is not a list gives the value.
NestedWalk_scalar(current, parts, i) ==
    IF i > Len(parts) THEN current
    ELSE IF current.t = "none" THEN NoneV
    ELSE IF parts[i].star
    THEN IF current.t = "map" /\ parts[i].key \in DOMAIN current.v
         THEN LET lst == current.v[parts[i].key]
                  remaining_parts == SubSeq(parts, IndexOf(parts, parts[i]) + 1, Len(parts))
              IN  IF lst.t # "list" THEN lst
                  ELSE IF remaining_parts # <<>>
                  THEN ListV([n \in DOMAIN lst.v |-> get_nested(lst.v[n], remaining_parts)])
                  ELSE lst
         ELSE NoneV
    ELSE IF current.t = "map"
    THEN NestedWalk(DictGet(current.v, parts[i].key), parts, i + 1)
    ELSE NoneV

\* Mutant: the remaining path is applied to the first element only.
NestedWalk_first(current, parts, i) ==
    IF i > Len(parts) THEN current
    ELSE IF current.t = "none" THEN NoneV
    ELSE IF parts[i].star
    THEN IF current.t = "map" /\ parts[i].key \in DOMAIN current.v
         THEN LET lst == current.v[parts[i].key]
                  remaining_parts == SubSeq(parts, IndexOf(parts, parts[i]) + 1, Len(parts))
              IN  IF lst.t # "list" THEN NoneV
                  ELSE IF remaining_parts # <<>>
                  THEN ListV([n \in DOMAIN lst.v \cap {1} |->
                                 get_nested(lst.v[n], remaining_parts)])
                  ELSE lst
         ELSE NoneV
    ELSE IF current.t = "map"
    THEN NestedWalk(DictGet(current.v, parts[i].key), parts, i + 1)
    ELSE NoneV

\* The loop "for part in parts" of get_nested, at the i-th part.
NestedWalk(current, parts, i) ==
    IF i > Len(parts) THEN current
    ELSE IF current.t = "none" THEN NoneV
    ELSE IF parts[i].star
    THEN IF current.t = "map" /\ parts[i].key \in DOMAIN current.v
         THEN LET lst == current.v[parts[i].key]
                  remaining_parts == SubSeq(parts, IndexOf(parts, parts[i]) + 1, Len(parts))
              IN  IF lst.t # "list" THEN NoneV
                  ELSE IF remaining_parts # <<>>
                  THEN ListV([n \in DOMAIN lst.v |-> get_nested(lst.v[n], remaining_parts)])
                  ELSE lst
         ELSE NoneV
    ELSE IF current.t = "map"
    THEN NestedWalk(DictGet(current.v, parts[i].key), parts, i + 1)
    ELSE NoneV

get_nested(obj, parts) ==
    IF parts = <<>> THEN obj ELSE NestedWalk(obj, parts, 1)

(***************************************************************************)
(* Specification SpecNested: get_nested on generated objects and paths.    *)
(***************************************************************************)
MaxListLen == 2
MaxParts == 3

NestedScalars == {NoneV, IntV(1), StrV("x")}
NestedInner ==
    {MapV(EmptyDict), MapV([a |-> IntV(1)]), MapV([a |-> NoneV]),
     MapV([a |-> ListV(<<IntV(1), IntV(2)>>)])}
NestedElems == {IntV(1), NoneV} \cup NestedInner
NestedLists == {ListV(l) : l \in UNION {[1..n -> NestedElems] : n \in 0..MaxListLen}}
NestedValues ==
    NestedScalars \cup NestedLists \cup NestedInner
    \cup {MapV([a |-> ListV(<<MapV([a |-> IntV(1)]), MapV(EmptyDict)>>)])}
NestedObjects ==
    {MapV([a |-> val]) : val \in NestedValues}
    \cup {MapV(EmptyDict), NoneV, IntV(1), ListV(<<IntV(1)>>)}
NestedPaths ==
    UNION {[1..n -> {Part(k, star) : k \in Keys, star \in BOOLEAN}] : n \in 0..MaxParts}

InitNested ==
    \E obj \in NestedObjects, path \in NestedPaths :
        /\ args = [obj |-> obj, path |-> path]
        /\ heap = <<>>
        /\ heap0 = <<>>
        /\ pc = "call"
        /\ ret = NoResult
        /\ todo = {}
        /\ acc = NoResult

GetNested ==
    /\ pc = "call"
    /\ ret' = get_nested(args.obj, args.path)
    /\ pc' = "done"
    /\ UNCHANGED <<heap, heap0, args, todo, acc>>

NextNested == GetNested

SpecNested == InitNested /\ [][NextNested]_vars

(***************************************************************************)
(* Claims about get_nested (SpecNested).                                   *)
(***************************************************************************)
RECURSIVE PathValue(_, _)
\* The value a path denotes in an object, part by part: null where a part
\* cannot be followed, a list of per-element values at a [*] part.
PathValue(obj, parts) ==
    IF parts = <<>> THEN obj
    ELSE IF obj.t # "map" THEN NoneV
    ELSE IF Head(parts).key \notin DOMAIN obj.v THEN NoneV
    ELSE LET x == obj.v[Head(parts).key]
         IN  IF ~Head(parts).star THEN PathValue(x, Tail(parts))
             ELSE IF x.t # "list" THEN NoneV
             ELSE IF Tail(parts) = <<>> THEN x
             ELSE ListV([n \in DOMAIN x.v |-> PathValue(x.v[n], Tail(parts))])

NestedObj == args.obj
NestedPath == args.path
FirstKeyMissing ==
    NestedPath # <<>> /\ NestedObj.t = "map" /\ NestedPath[1].key \notin DOMAIN NestedObj.v
FirstOnNonMap == NestedPath # <<>> /\ NestedObj.t # "map"
FirstStarOnNonList ==
    /\ NestedPath # <<>> /\ NestedPath[1].star
    /\ NestedObj.t = "map" /\ NestedPath[1].key \in DOMAIN NestedObj.v
    /\ NestedObj.v[NestedPath[1].key].t # "list"

\* C15: get_nested always returns; the result is null when a key is
\* missing, when a map access meets a non-map, when a [*] part addresses a
\* missing key or a non-list, and otherwise it is the value at the path.
C15_NullOrValue ==
    /\ pc \in {"call", "done"}
    /\ pc = "done" =>
          /\ ret = PathValue(NestedObj, NestedPath)
          /\ (FirstKeyMissing \/ FirstOnNonMap \/ FirstStarOnNonList) => ret = NoneV

\* A [*] part on an integer, and a map access below a list, both give null.
C15_Witness ==
    /\ pc = "done"
    /\ ret = NoneV
    /\ \/ /\ NestedObj = MapV([a |-> IntV(1)])
          /\ NestedPath = <<Part("a", TRUE)>>
       \/ /\ NestedObj = MapV([a |-> ListV(<<IntV(1)>>)])
          /\ NestedPath = <<Part("a", FALSE), Part("a", FALSE)>>

\* The position of the first [*] part, 0 when there is none.
FirstStar ==
    LET at == {i \in DOMAIN NestedPath : NestedPath[i].star}
    IN  IF at = {} THEN 0 ELSE CHOOSE i \in at : \A j \in at : i <= j
\* The list the first [*] part addresses, NoneV when it addresses none.
StarList ==
    IF FirstStar = 0 THEN NoneV
    ELSE LET holder == PathValue(NestedObj, SubSeq(NestedPath, 1, FirstStar - 1))
             key == NestedPath[FirstStar].key
         IN  IF holder.t = "map" /\ key \in DOMAIN holder.v /\ holder.v[key].t = "list"
             THEN holder.v[key] ELSE NoneV
StarRest == SubSeq(NestedPath, FirstStar + 1, Len(NestedPath))

\* C16: when the first [*] part addresses a list of length n and a path
\* remains, the result is a list of length n whose i-th entry is the value
\* of the remaining path in the i-th element (null where it is absent,
\* a list again where the remaining path has a [*]).
C16_PerElement ==
    (pc = "done" /\ StarList # NoneV /\ StarRest # <<>>) =>
        /\ ret.t = "list"
        /\ Len(ret.v) = Len(StarList.v)
        /\ \A i \in DOMAIN StarList.v : ret.v[i] = PathValue(StarList.v[i], StarRest)

\* a[*].a[*] over a list of a map holding a list and of a null element.
C16_Witness ==
    /\ pc = "done"
    /\ NestedPath = <<Part("a", TRUE), Part("a", TRUE)>>
    /\ NestedObj = MapV([a |-> ListV(<<MapV([a |-> ListV(<<IntV(1), IntV(2)>>)]), NoneV>>)])
    /\ ret = ListV(<<ListV(<<IntV(1), IntV(2)>>), NoneV>>)

(***************************************************************************)
(* Specification SpecEffective: get_effective_config on two sources and a  *)
(* resolutions dict of up to two paths, none a prefix of the other.        *)
(***************************************************************************)
MaxResolutions == 2

IsPrefix(p, q) == Len(p) <= Len(q) /\ SubSeq(q, 1, Len(p)) = p
Overlap(p, q) == IsPrefix(p, q) \/ IsPrefix(q, p)
ResolutionValue == StrV("r")
ResolutionLists ==
    {r \in UNION {[1..n -> [path : PathSet, value : {ResolutionValue}]]
                  : n \in 0..MaxResolutions} :
        \A i, j \in DOMAIN r : i # j => ~Overlap(r[i].path, r[j].path)}

InitEffective ==
    /\ \E T \in [1..2 -> ConflictTrees], P \in [1..2 -> {0, 10}],
          resolutions \in ResolutionLists :
          LET s1 == StoreTree(<<>>, T[1])
              s2 == StoreTree(s1.h, T[2])
              addr == <<s1.r, s2.r>>
          IN  /\ heap = s2.h
              /\ args = [configs |-> [i \in 1..2 |->
                            [source |-> SourceNames[i],
                             priority |-> P[i],
                             config |-> addr[i]]],
                         resolutions |-> resolutions]
    /\ heap0 = heap
    /\ pc = "call"
    /\ ret = NoResult
    /\ todo = {}
    /\ acc = NoResult

\* get_effective_config returns merged_config.
EffectiveReturns ==
    /\ pc = "call"
    /\ \E o \in get_effective_config(heap, args.configs, args.resolutions) :
          /\ ~o.raised
          /\ heap' = o.h
          /\ ret' = [merged_config |-> o.merged_config, conflicts |-> <<>>]
    /\ pc' = "done"
    /\ UNCHANGED <<heap0, args, todo, acc>>

\* detect_conflicts or set_value_at_path raises TypeError out of the call.
EffectiveRaises ==
    /\ pc = "call"
    /\ \E o \in get_effective_config(heap, args.configs, args.resolutions) :
          /\ o.raised
          /\ heap' = o.h
    /\ ret' = [t |-> "TypeError", v |-> 0]
    /\ pc' = "raised"
    /\ UNCHANGED <<heap0, args, todo, acc>>

NextEffective == EffectiveReturns \/ EffectiveRaises

SpecEffective == InitEffective /\ [][NextEffective]_vars

\* The merged configurations detect_conflicts can return for the sources.
DetectedTrees ==
    {Tree(d.h, d.merged_config) :
        d \in {x \in detect_conflicts(heap0, args.configs) : ~x.raised}}
Resolved(p) == \E i \in DOMAIN args.resolutions : Overlap(args.resolutions[i].path, p)

\* C17: the call returns a configuration that holds each resolution's value
\* at its path, whatever the sources hold there, and at every path no
\* resolution touches what detect_conflicts computes for the sources.
C17_AsStated ==
    /\ pc # "raised"
    /\ pc = "done" =>
          /\ \A i \in DOMAIN args.resolutions :
                Lookup(Merged, args.resolutions[i].path) = args.resolutions[i].value
          /\ \E D \in DetectedTrees :
                \A p \in PathSet : ~Resolved(p) => Lookup(Merged, p) = Lookup(D, p)

\* Two sources disagree on whether a path is a leaf or a map.
ShapesDisagree ==
    \E i, j \in Sources, p \in PathSet :
        /\ IsLeaf(SrcTree(i), p) /\ Lookup(SrcTree(i), p) # NoneV
        /\ \E q \in PathSet : IsPrefix(p, q) /\ p # q /\ IsLeaf(SrcTree(j), q)
\* A resolution's path runs through a leaf of some source.
ResolutionThroughLeaf ==
    \E i \in DOMAIN args.resolutions, j \in Sources, p \in PathSet :
        /\ IsPrefix(p, args.resolutions[i].path) /\ p # args.resolutions[i].path
        /\ IsLeaf(SrcTree(j), p) /\ Lookup(SrcTree(j), p) # NoneV

\* What holds of the code: the same when the sources agree on the shape and
\* no resolution's path runs through a leaf.
C17_WellShaped ==
    (~ShapesDisagree /\ ~ResolutionThroughLeaf) => C17_AsStated


(***************************************************************************)
(* The check evaluators of eval.py.  A resource is [arn, resource_type,    *)
(* config, metadata] with config a value without heap; a rule is [id,      *)
(* resource_type, selector, check], check being [type, path, expected,     *)
(* forbidden, params] with path the parts get_nested walks.  An evaluator  *)
(* gives [raised, results]: whether an exception leaves the call, and      *)
(* otherwise the set of values it can return, None or a Finding.           *)
(***************************************************************************)
\* repr of a str: in apostrophes, or in double quotes when the text holds
\* an apostrophe (and no double quote).  WithApostrophe lists the generated
\* texts that hold one.
WithApostrophe == {"{'a': 1}"}
str_repr(s) == IF s \in WithApostrophe THEN "\"" \o s \o "\"" ELSE "'" \o s \o "'"

RECURSIVE value_repr(_), ReprEntries(_, _), ReprElems(_)
\* repr(v) of a value without heap.
value_repr(val) ==
    CASE val.t = "none" -> "None"
      [] val.t = "int" -> ToString(val.v)
      [] val.t = "str" -> str_repr(val.v)
      [] val.t = "list" -> "[" \o ReprElems(val.v) \o "]"
      [] val.t = "map" -> "{" \o ReprEntries(val.v, items(val.v)) \o "}"

ReprEntries(d, ks) ==
    IF ks = <<>> THEN ""
    ELSE "'" \o Head(ks) \o "': " \o value_repr(d[Head(ks)])
         \o (IF Len(ks) > 1 THEN ", " ELSE "") \o ReprEntries(d, Tail(ks))

ReprElems(l) ==
    IF l = <<>> THEN ""
    ELSE value_repr(Head(l)) \o (IF Len(l) > 1 THEN ", " ELSE "") \o ReprElems(Tail(l))

\* str(v): a string is its own text, any other value its repr.
value_str(val) == IF val.t = "str" THEN val.v ELSE value_repr(val)

\* Mutant: a nested list is kept as one item.
flatten_list_shallow(lst) == lst

RECURSIVE flatten_list(_)
flatten_list(lst) ==
    IF lst = <<>> THEN <<>>
    ELSE (IF Head(lst).t = "list" THEN flatten_list(Head(lst).v) ELSE <<Head(lst)>>)
         \o flatten_list(Tail(lst))

\* list(s) of a Python set: the elements once each, in an order the
\* language does not fix.
ListsOfSet(S) == {l \in [1..Cardinality(S) -> S] : Range(l) = S}

\* The outcomes of an evaluator call.
Returns(results) == [raised |-> FALSE, results |-> results]
Raises == [raised |-> TRUE, results |-> {}]

evaluate_equals(resource, rule) ==
    LET observed == get_nested(resource.config, rule.check.path)
        expected == rule.check.expected
    IN  IF observed # expected
        THEN Returns({Finding_create(<<>>, rule, resource, observed, expected)})
        ELSE Returns({NoneV})

evaluate_forbidden_any(resource, rule) ==
    LET read == get_nested(resource.config, rule.check.path)
        forbidden == IF rule.check.forbidden.t = "none" THEN <<>>
                     ELSE rule.check.forbidden.v
        observed == IF read.t = "list" THEN flatten_list(read.v)
                    ELSE IF read.t # "none" THEN <<read>> ELSE <<>>
        observed_set == {StrV(value_str(observed[i])) :
                            i \in {j \in DOMAIN observed : observed[j].t # "none"}}
        forbidden_set == Range(forbidden)
        violations == observed_set \cap forbidden_set
    IN  IF violations # {}
        THEN Returns({Finding_create(<<>>, rule, resource, ListV(l),
                                     StrV("None of: " \o value_repr(ListV(forbidden))))
                      : l \in ListsOfSet(violations)})
        ELSE Returns({NoneV})

\* from_port <= forbidden_port <= to_port on a permission entry that holds
\* both ports.
PortInRange(permission, forbidden_port) ==
    LET from_port == DictGet(permission.v, "FromPort")
        to_port == DictGet(permission.v, "ToPort")
    IN  /\ from_port.t # "none" /\ to_port.t # "none"
        /\ from_port.v <= forbidden_port.v /\ forbidden_port.v <= to_port.v

\* The loop over the permissions raises: permission.get on an entry that is
\* not a dict (AttributeError), or, for an entry whose range holds the port,
\* the iteration of IpRanges that is None (TypeError) or ip_range.get on a
\* range that is not a dict (AttributeError).
PermissionsRaise(ip_permissions, forbidden_port) ==
    \E i \in DOMAIN ip_permissions :
        \/ ip_permissions[i].t # "map"
        \/ /\ PortInRange(ip_permissions[i], forbidden_port)
           /\ "IpRanges" \in DOMAIN ip_permissions[i].v
           /\ LET ip_ranges == ip_permissions[i].v["IpRanges"]
              IN  \/ ip_ranges.t # "list"
                  \/ \E k \in DOMAIN ip_ranges.v : ip_ranges.v[k].t # "map"

\* The violations one permission entry appends, from its k-th IP range on.
RECURSIVE RangeViolations(_, _, _, _)
RangeViolations(permission, forbidden_port, forbidden_cidr, k) ==
    LET ip_ranges == IF "IpRanges" \in DOMAIN permission.v
                     THEN permission.v["IpRanges"].v ELSE <<>>
    IN  IF k > Len(ip_ranges) THEN <<>>
        ELSE (IF DictGet(ip_ranges[k].v, "CidrIp") = forbidden_cidr
              THEN <<MapV([port |-> forbidden_port,
                           cidr |-> DictGet(ip_ranges[k].v, "CidrIp"),
                           from_port |-> DictGet(permission.v, "FromPort"),
                           to_port |-> DictGet(permission.v, "ToPort")])>>
              ELSE <<>>)
             \o RangeViolations(permission, forbidden_port, forbidden_cidr, k + 1)

RECURSIVE PermissionViolations(_, _, _, _)

\* Mutant: the port range of a permission entry is not looked at.
PermissionViolations_anyport(ip_permissions, forbidden_port, forbidden_cidr, i) ==
    IF i > Len(ip_permissions) THEN <<>>
    ELSE RangeViolations(ip_permissions[i], forbidden_port, forbidden_cidr, 1)
         \o PermissionViolations(ip_permissions, forbidden_port, forbidden_cidr, i + 1)

\* The loop "for permission in ip_permissions", from the i-th entry on.
PermissionViolations(ip_permissions, forbidden_port, forbidden_cidr, i) ==
    IF i > Len(ip_permissions) THEN <<>>
    ELSE LET permission == ip_permissions[i]
         IN  (IF PortInRange(permission, forbidden_port)
              THEN RangeViolations(permission, forbidden_port, forbidden_cidr, 1)
              ELSE <<>>)
             \o PermissionViolations(ip_permissions, forbidden_port, forbidden_cidr, i + 1)

\* Mutant: a rule without cidr is evaluated like any other.
evaluate_forbidden_cidr_port_nocidr(resource, rule) ==
    LET ip_permissions == get_nested(resource.config, rule.check.path)
        params == IF rule.check.params.t = "none" THEN EmptyDict ELSE rule.check.params.v
        forbidden_port == DictGet(params, "port")
        forbidden_cidr == DictGet(params, "cidr")
        violations == PermissionViolations(ip_permissions.v, forbidden_port,
                                           forbidden_cidr, 1)
    IN  IF ip_permissions.t # "list" \/ ip_permissions.v = <<>> THEN Returns({NoneV})
        ELSE IF forbidden_port.t = "none" THEN Returns({NoneV})
        ELSE IF PermissionsRaise(ip_permissions.v, forbidden_port) THEN Raises
        ELSE IF violations # <<>>
        THEN Returns({Finding_create(<<>>, rule, resource, ListV(violations),
                                     StrV("Port " \o value_str(forbidden_port)
                                          \o " not open to "
                                          \o value_str(forbidden_cidr)))})
        ELSE Returns({NoneV})

evaluate_forbidden_cidr_port(resource, rule) ==
    LET ip_permissions == get_nested(resource.config, rule.check.path)
        params == IF rule.check.params.t = "none" THEN EmptyDict ELSE rule.check.params.v
        forbidden_port == DictGet(params, "port")
        forbidden_cidr == DictGet(params, "cidr")
        violations == PermissionViolations(ip_permissions.v, forbidden_port,
                                           forbidden_cidr, 1)
    IN  IF ip_permissions.t # "list" \/ ip_permissions.v = <<>> THEN Returns({NoneV})
        ELSE IF forbidden_port.t = "none" \/ forbidden_cidr.t = "none"
        THEN Returns({NoneV})
        ELSE IF PermissionsRaise(ip_permissions.v, forbidden_port) THEN Raises
        ELSE IF violations # <<>>
        THEN Returns({Finding_create(<<>>, rule, resource, ListV(violations),
                                     StrV("Port " \o value_str(forbidden_port)
                                          \o " not open to "
                                          \o value_str(forbidden_cidr)))})
        ELSE Returns({NoneV})

\* eval.py's evaluate_golden_config: the subtree at the path, or the whole
\* configuration when the rule has no path, against rule.check.expected.
eval_evaluate_golden_config(resource, rule) ==
    LET observed == IF rule.check.path # <<>>
                    THEN get_nested(resource.config, rule.check.path)
                    ELSE resource.config
        expected == rule.check.expected
    IN  IF observed # expected
        THEN Returns({Finding_create(<<>>, rule, resource, observed, expected)})
        ELSE Returns({NoneV})

\* finding.tenant_id = tenant_id; finding.snapshot_key = snapshot_key
Stamp(finding, tenant_id, snapshot_key) ==
    IF finding.t = "finding"
    THEN [tenant_id |-> tenant_id, snapshot_key |-> snapshot_key] @@ finding
    ELSE finding

\* The dispatch of evaluate_rule on rule.check.type.
Dispatch(resource, rule) ==
    CASE rule.check.type = "equals" -> evaluate_equals(resource, rule)
      [] rule.check.type = "forbidden-any" -> evaluate_forbidden_any(resource, rule)
      [] rule.check.type = "forbidden-cidr-port" ->
             evaluate_forbidden_cidr_port(resource, rule)
      [] rule.check.type = "golden-config" -> eval_evaluate_golden_config(resource, rule)
      [] OTHER -> Returns({NoneV})

\* Mutant: the resource type of the rule is not looked at.
eval_evaluate_rule_anytype(resource, rule, tenant_id, snapshot_key) ==
    LET matched == matches_selector(resource, rule.selector)
    IN  IF matched.raised THEN Raises
        ELSE IF ~matched.r THEN Returns({NoneV})
        ELSE LET out == Dispatch(resource, rule)
             IN  IF out.raised THEN Raises
                 ELSE Returns({Stamp(finding, tenant_id, snapshot_key) :
                                  finding \in out.results})

\* eval.py's evaluate_rule: an exception of matches_selector (re.error) or
\* of the evaluator leaves the call.
eval_evaluate_rule(resource, rule, tenant_id, snapshot_key) ==
    LET matched == matches_selector(resource, rule.selector)
    IN  IF resource.resource_type # rule.resource_type
        THEN Returns({NoneV})
        ELSE IF matched.raised THEN Raises
        ELSE IF ~matched.r THEN Returns({NoneV})
        ELSE LET out == Dispatch(resource, rule)
             IN  IF out.raised THEN Raises
                 ELSE Returns({Stamp(finding, tenant_id, snapshot_key) :
                                  finding \in out.results})

(***************************************************************************)
(* Specification SpecRule: eval.evaluate_rule on generated resources and   *)
(* rules of every check kind, and of a kind the engine does not know.      *)
(***************************************************************************)
OpenPermission ==
    MapV([FromPort |-> IntV(1), ToPort |-> IntV(1),
          IpRanges |-> ListV(<<MapV([CidrIp |-> StrV("0.0.0.0/0")])>>)])

RuleResources ==
    {[arn |-> arn, resource_type |-> type, config |-> MapV([a |-> val]),
      metadata |-> metadata] :
        arn \in {<<"p">>, <<":", "q">>}, type \in {S3, IAM},
        val \in {IntV(1), ListV(<<StrV("*")>>), ListV(<<OpenPermission>>)},
        metadata \in {EmptyDict, [Tags |-> MapV([env |-> StrV("prod")])],
                      [Tags |-> MapV([env |-> StrV("dev")])]}}

RuleSelectors ==
    {NoneV, ProdSelector, MapV([arn_pattern |-> TextV(<<"p">>)]),
     MapV([name_pattern |-> TextV(<<"q">>)]), MapV([arn_pattern |-> TextV(<<"*">>)])}

Check(type, expected, forbidden, params) ==
    [type |-> type, path |-> <<Part("a", FALSE)>>, expected |-> expected,
     forbidden |-> forbidden, params |-> params]

RuleChecks ==
    {Check("equals", IntV(1), NoneV, NoneV),
     Check("equals", IntV(2), NoneV, NoneV),
     Check("forbidden-any", NoneV, ListV(<<StrV("*")>>), NoneV),
     Check("forbidden-cidr-port", NoneV, NoneV,
           MapV([port |-> IntV(1), cidr |-> StrV("0.0.0.0/0")])),
     Check("golden-config", IntV(1), NoneV, NoneV),
     Check("golden-config", IntV(2), NoneV, NoneV),
     Check("regex", IntV(2), NoneV, NoneV)}

Rules ==
    {[id |-> "r1", resource_type |-> type, selector |-> selector, check |-> check] :
        type \in {S3, IAM}, selector \in RuleSelectors, check \in RuleChecks}

InitRule ==
    \E resource \in RuleResources, rule \in Rules, snapshot_key \in {"", "k"} :
        /\ args = [resource |-> resource, rule |-> rule, tenant_id |-> "t1",
                   snapshot_key |-> snapshot_key]
        /\ heap = <<>>
        /\ heap0 = <<>>
        /\ pc = "call"
        /\ ret = NoResult
        /\ todo = {}
        /\ acc = NoResult

\* The call returns None or a Finding.
RuleReturns ==
    /\ pc = "call"
    /\ LET out == eval_evaluate_rule(args.resource, args.rule, args.tenant_id,
                                     args.snapshot_key)
       IN  /\ ~out.raised
           /\ \E result \in out.results : ret' = result
    /\ pc' = "done"
    /\ UNCHANGED <<heap, heap0, args, todo, acc>>

\* An exception leaves the call.
RuleRaises ==
    /\ pc = "call"
    /\ eval_evaluate_rule(args.resource, args.rule, args.tenant_id,
                          args.snapshot_key).raised
    /\ pc' = "raised"
    /\ ret' = [t |-> "error", v |-> 0]
    /\ UNCHANGED <<heap, heap0, args, todo, acc>>

NextRule == RuleReturns \/ RuleRaises

SpecRule == InitRule /\ [][NextRule]_vars

(***************************************************************************)
(* Claims about evaluate_rule (SpecRule).                                  *)
(***************************************************************************)
RuleTypeDiffers == args.resource.resource_type # args.rule.resource_type
RuleAccepted == matches_selector(args.resource, args.rule.selector)
\* The rule's check, taken alone, fails on the resource.
CheckFails ==
    \E finding \in Dispatch(args.resource, args.rule).results : finding.t = "finding"

\* C18: evaluate_rule returns no Finding, whatever the check kind, when the
\* resource's resource_type differs from the rule's or the selector matcher
\* does not accept the resource against the rule's selector; a returned
\* Finding is for the resource and the rule of the call, whose types are
\* equal and whose selector the matcher accepts.
C18_OnlyApplicable ==
    /\ (pc = "done" /\ (RuleTypeDiffers \/ ~RuleAccepted.r)) => ret = NoneV
    /\ pc = "raised" => ~RuleTypeDiffers /\ (RuleAccepted.raised \/ RuleAccepted.r)
    /\ (pc = "done" /\ ret.t = "finding") =>
           /\ ~RuleTypeDiffers
           /\ ~RuleAccepted.raised /\ RuleAccepted.r
           /\ ret.resource_arn = args.resource.arn
           /\ ret.rule_id = args.rule.id
           /\ ret.tenant_id = args.tenant_id
           /\ ret.snapshot_key = args.snapshot_key

\* A rule of the resource's type whose check fails but whose selector the
\* matcher rejects, and one of another type whose selector is accepted: no
\* Finding is returned.
C18_Witness ==
    /\ pc = "done"
    /\ ret = NoneV
    /\ CheckFails
    /\ \/ ~RuleTypeDiffers /\ ~RuleAccepted.r /\ args.rule.check.type = "forbidden-any"
       \/ RuleTypeDiffers /\ RuleAccepted.r /\ args.rule.check.type = "forbidden-cidr-port"

(***************************************************************************)
(* Specification SpecForbiddenAny: evaluate_forbidden_any on generated     *)
(* configurations, paths and forbidden lists.  The value at key a is null, *)
(* a scalar, a mapping or a list whose elements may be lists themselves;   *)
(* the forbidden list holds texts, among them the text of an integer, of   *)
(* None and of a mapping, or an integer.                                   *)
(***************************************************************************)
AnyElems ==
    {StrV("*"), StrV("x"), IntV(1), NoneV, ListV(<<StrV("*")>>),
     ListV(<<ListV(<<StrV("*")>>), StrV("x")>>)}
AnyValues ==
    {NoneV, StrV("*"), StrV("1"), IntV(1), StrV("None"), MapV([a |-> IntV(1)])}
    \cup {ListV(l) : l \in UNION {[1..n -> AnyElems] : n \in 0..MaxListLen}}
    \cup {ListV(<<MapV([a |-> ListV(<<StrV("*")>>)]), MapV([a |-> StrV("x")])>>),
          ListV(<<MapV([a |-> IntV(1)])>>)}
AnyPaths ==
    {<<Part("a", FALSE)>>, <<Part("a", TRUE)>>, <<Part("a", TRUE), Part("a", FALSE)>>,
     <<Part("b", FALSE)>>}
ForbiddenLists ==
    {NoneV, ListV(<<>>), ListV(<<StrV("*")>>), ListV(<<StrV("1")>>),
     ListV(<<StrV("*"), StrV("1")>>), ListV(<<StrV("*"), StrV("*")>>),
     ListV(<<StrV("None")>>), ListV(<<IntV(1)>>), ListV(<<StrV("{'a': 1}")>>)}

InitForbiddenAny ==
    \E val \in AnyValues, path \in AnyPaths, forbidden \in ForbiddenLists :
        /\ args = [resource |-> [arn |-> <<"p">>, resource_type |-> IAM,
                                 config |-> MapV([a |-> val]), metadata |-> EmptyDict],
                   rule |-> [id |-> "r1", resource_type |-> IAM, selector |-> NoneV,
                             check |-> [type |-> "forbidden-any", path |-> path,
                                        expected |-> NoneV, forbidden |-> forbidden,
                                        params |-> NoneV]]]
        /\ heap = <<>>
        /\ heap0 = <<>>
        /\ pc = "call"
        /\ ret = NoResult
        /\ todo = {}
        /\ acc = NoResult

\* The call returns None or a Finding whose observed list is in one of the
\* orders list(violations) can give.
ForbiddenAnyReturns ==
    /\ pc = "call"
    /\ \E result \in evaluate_forbidden_any(args.resource, args.rule).results :
           ret' = result
    /\ pc' = "done"
    /\ UNCHANGED <<heap, heap0, args, todo, acc>>

NextForbiddenAny == ForbiddenAnyReturns

SpecForbiddenAny == InitForbiddenAny /\ [][NextForbiddenAny]_vars

(***************************************************************************)
(* Claims about evaluate_forbidden_any (SpecForbiddenAny).                 *)
(***************************************************************************)
\* The values a value stands for once nested lists are flattened: the
\* value itself when it is no list.
RECURSIVE Atoms(_)
Atoms(val) ==
    IF val.t = "list" THEN UNION {Atoms(val.v[i]) : i \in DOMAIN val.v} ELSE {val}

AnyRead == PathValue(args.resource.config, args.rule.check.path)
AnyForbidden ==
    IF args.rule.check.forbidden.t = "none" THEN {}
    ELSE Range(args.rule.check.forbidden.v)
\* The non-null values read at the path whose string form is forbidden.
Violating == {val \in Atoms(AnyRead) \ {NoneV} : StrV(value_str(val)) \in AnyForbidden}

\* C19: a forbidden-any check emits a Finding exactly when some non-null
\* value read at the path (nested lists flattened, a scalar as a list of
\* one, null as the empty list) has a string form in the rule's forbidden
\* set, and the Finding's observed list holds the string form of every
\* violating value once and nothing else.
C19_ForbiddenAny ==
    pc = "done" =>
        /\ ret.t = "finding" <=> Violating # {}
        /\ ret.t = "finding" =>
               /\ Range(ret.observed.v) = {StrV(value_str(val)) : val \in Violating}
               /\ Len(ret.observed.v) = Cardinality(Range(ret.observed.v))
        /\ ret.t # "finding" => ret = NoneV

\* A nested list with a forbidden "*" below a second level, a null and a
\* value that is not forbidden: the Finding holds "*" only.
C19_Witness ==
    /\ pc = "done"
    /\ ret.t = "finding"
    /\ AnyRead.t = "list"
    /\ \E i \in DOMAIN AnyRead.v : AnyRead.v[i].t = "list"
    /\ NoneV \in Atoms(AnyRead)
    /\ StrV("x") \in Atoms(AnyRead)
    /\ ret.observed = ListV(<<StrV("*")>>)

(***************************************************************************)
(* Specification SpecCidrPort: evaluate_forbidden_cidr_port on generated   *)
(* security group configurations.  A permission entry holds both ports,    *)
(* one of them, a null port or none, and IpRanges that are absent or a     *)
(* list of ranges with or without CidrIp; the value at the path is a list  *)
(* of such entries, or null, a mapping, a list of texts, or a list with an *)
(* entry that is no mapping or whose IpRanges is null.  The parameters of  *)
(* the rule are None, lack the port or the cidr, hold a null cidr, or hold *)
(* both.                                                                   *)
(***************************************************************************)
MaxPermissions == 2

Open == MapV([CidrIp |-> StrV("0.0.0.0/0")])
Private == MapV([CidrIp |-> StrV("10.0.0.0/8")])

PortShapes ==
    {[FromPort |-> IntV(1), ToPort |-> IntV(1)],
     [FromPort |-> IntV(2), ToPort |-> IntV(2)],
     [FromPort |-> IntV(0), ToPort |-> IntV(2)],
     [FromPort |-> NoneV, ToPort |-> IntV(1)],
     [FromPort |-> IntV(1)],
     EmptyDict}
RangeLists ==
    {<<Open>>, <<Private>>, <<Open, Open>>, <<Private, Open>>, <<MapV(EmptyDict)>>}
Permissions ==
    {MapV(ports) : ports \in PortShapes}
    \cup {MapV(ports @@ [IpRanges |-> ListV(ranges)]) :
             ports \in PortShapes, ranges \in RangeLists}
PermissionLists ==
    {ListV(l) : l \in UNION {[1..n -> Permissions] : n \in 0..MaxPermissions}}
Malformed ==
    {NoneV, MapV([FromPort |-> IntV(1)]), ListV(<<StrV("*")>>),
     ListV(<<OpenPermission, StrV("*")>>),
     ListV(<<MapV([FromPort |-> IntV(2), ToPort |-> IntV(2), IpRanges |-> NoneV])>>),
     ListV(<<MapV([FromPort |-> IntV(1), ToPort |-> IntV(1), IpRanges |-> NoneV]),
             OpenPermission>>),
     ListV(<<MapV([FromPort |-> IntV(1), ToPort |-> IntV(1),
                   IpRanges |-> ListV(<<Open, StrV("*")>>)])>>)}
CidrParams ==
    {NoneV, MapV([port |-> IntV(1)]), MapV([cidr |-> StrV("0.0.0.0/0")]),
     MapV([port |-> IntV(1), cidr |-> NoneV]),
     MapV([port |-> IntV(1), cidr |-> StrV("0.0.0.0/0")]),
     MapV([port |-> IntV(0), cidr |-> StrV("0.0.0.0/0")])}

InitCidrPort ==
    \E val \in PermissionLists \cup Malformed, params \in CidrParams :
        /\ args = [resource |-> [arn |-> <<"p">>, resource_type |-> S3,
                                 config |-> MapV([a |-> val]), metadata |-> EmptyDict],
                   rule |-> [id |-> "r1", resource_type |-> S3, selector |-> NoneV,
                             check |-> [type |-> "forbidden-cidr-port",
                                        path |-> <<Part("a", FALSE)>>,
                                        expected |-> NoneV, forbidden |-> NoneV,
                                        params |-> params]]]
        /\ heap = <<>>
        /\ heap0 = <<>>
        /\ pc = "call"
        /\ ret = NoResult
        /\ todo = {}
        /\ acc = NoResult

\* The call returns None or a Finding.
CidrPortReturns ==
    /\ pc = "call"
    /\ LET out == evaluate_forbidden_cidr_port(args.resource, args.rule)
       IN  /\ ~out.raised
           /\ \E result \in out.results : ret' = result
    /\ pc' = "done"
    /\ UNCHANGED <<heap, heap0, args, todo, acc>>

\* AttributeError or TypeError leaves the call.
CidrPortRaises ==
    /\ pc = "call"
    /\ evaluate_forbidden_cidr_port(args.resource, args.rule).raised
    /\ pc' = "raised"
    /\ ret' = [t |-> "error", v |-> 0]
    /\ UNCHANGED <<heap, heap0, args, todo, acc>>

NextCidrPort == CidrPortReturns \/ CidrPortRaises

SpecCidrPort == InitCidrPort /\ [][NextCidrPort]_vars

(***************************************************************************)
(* Claims about evaluate_forbidden_cidr_port (SpecCidrPort).               *)
(***************************************************************************)
CidrRead == args.resource.config.v["a"]
CidrEntries == IF CidrRead.t = "list" THEN CidrRead.v ELSE <<>>
\* The value at the path has the shape of IpPermissions: a list of mappings
\* whose IpRanges, where present, is a list of mappings.
IpPermissionsShaped ==
    /\ CidrRead.t = "list"
    /\ \A i \in DOMAIN CidrEntries :
           /\ CidrEntries[i].t = "map"
           /\ "IpRanges" \in DOMAIN CidrEntries[i].v =>
                  /\ CidrEntries[i].v["IpRanges"].t = "list"
                  /\ \A k \in DOMAIN CidrEntries[i].v["IpRanges"].v :
                         CidrEntries[i].v["IpRanges"].v[k].t = "map"
HasParams ==
    /\ args.rule.check.params.t = "map"
    /\ {"port", "cidr"} \subseteq DOMAIN args.rule.check.params.v
    /\ args.rule.check.params.v["port"] # NoneV
    /\ args.rule.check.params.v["cidr"] # NoneV
RulePort == args.rule.check.params.v["port"]
RuleCidr == args.rule.check.params.v["cidr"]
\* Entry i holds FromPort <= port <= ToPort.
Covers(i) ==
    /\ {"FromPort", "ToPort"} \subseteq DOMAIN CidrEntries[i].v
    /\ CidrEntries[i].v["FromPort"].t = "int"
    /\ CidrEntries[i].v["ToPort"].t = "int"
    /\ CidrEntries[i].v["FromPort"].v <= RulePort.v
    /\ RulePort.v <= CidrEntries[i].v["ToPort"].v
RangesOf(i) ==
    IF "IpRanges" \in DOMAIN CidrEntries[i].v THEN CidrEntries[i].v["IpRanges"].v
    ELSE <<>>
\* The (permission entry, IP range) pairs that open the port to the cidr.
ViolatingPairs ==
    {q \in UNION {{<<i, k>> : k \in DOMAIN RangesOf(i)} : i \in DOMAIN CidrEntries} :
        /\ Covers(q[1])
        /\ "CidrIp" \in DOMAIN RangesOf(q[1])[q[2]].v
        /\ RangesOf(q[1])[q[2]].v["CidrIp"] = RuleCidr}
Before(q, r) == q[1] < r[1] \/ (q[1] = r[1] /\ q[2] < r[2])
Rank(q) == 1 + Cardinality({r \in ViolatingPairs : Before(r, q)})

\* C20: on a list shaped as IpPermissions and a rule that holds port and
\* cidr, a forbidden-cidr-port check emits a Finding exactly when some
\* permission entry has FromPort <= port <= ToPort and an IP range whose
\* CidrIp equals the cidr; observed holds one tuple (port, cidr, from_port,
\* to_port) per such (entry, range) pair, in the order of the pairs, and
\* nothing for an entry whose port range excludes the port.  A rule that
\* lacks port or cidr gives no Finding and does not raise.
C20_CidrPort ==
    /\ (pc = "raised") => (HasParams /\ ~IpPermissionsShaped)
    /\ (pc = "done" /\ ~HasParams) => ret = NoneV
    /\ (pc = "done" /\ HasParams /\ IpPermissionsShaped) =>
           /\ ret.t = "finding" <=> ViolatingPairs # {}
           /\ ret.t # "finding" => ret = NoneV
           /\ ret.t = "finding" =>
                  /\ Len(ret.observed.v) = Cardinality(ViolatingPairs)
                  /\ \A q \in ViolatingPairs :
                         ret.observed.v[Rank(q)] =
                             MapV([port |-> RulePort, cidr |-> RuleCidr,
                                   from_port |-> CidrEntries[q[1]].v["FromPort"],
                                   to_port |-> CidrEntries[q[1]].v["ToPort"]])

\* Two entries, the first with the port outside its range and the
\* forbidden cidr among its ranges, the second covering the port with two
\* ranges of the forbidden cidr: the Finding holds two tuples, both of the
\* second entry.
C20_Witness ==
    /\ pc = "done"
    /\ ret.t = "finding"
    /\ Len(CidrEntries) = 2
    /\ ~Covers(1)
    /\ Open \in Range(RangesOf(1))
    /\ ViolatingPairs = {<<2, 1>>, <<2, 2>>}
    /\ Len(ret.observed.v) = 2

\* C21: a forbidden-cidr-port rule that lacks its port or its cidr
\* parameter (no params, a missing key or a null value) returns no Finding
\* and raises nothing, whatever the value at the path is.
C21_MissingParams ==
    ~HasParams =>
        /\ pc # "raised"
        /\ pc = "call" => ~evaluate_forbidden_cidr_port(args.resource, args.rule).raised
        /\ pc = "done" => ret = NoneV

\* A rule with a port and a null cidr on an entry that covers the port and
\* holds a range without CidrIp, and a rule without port on a list with an
\* entry that is no mapping: None is returned.
C21_Witness ==
    /\ pc = "done"
    /\ ret = NoneV
    /\ ~HasParams
    /\ \/ /\ args.rule.check.params = MapV([port |-> IntV(1), cidr |-> NoneV])
          /\ IpPermissionsShaped
          /\ \E i \in DOMAIN CidrEntries :
                 Covers(i) /\ MapV(EmptyDict) \in Range(RangesOf(i))
       \/ /\ args.rule.check.params = MapV([cidr |-> StrV("0.0.0.0/0")])
          /\ CidrRead = ListV(<<OpenPermission, StrV("*")>>)

(***************************************************************************)
(* Specification SpecBatch: eval.evaluate_resources, one step per          *)
(* resource/rule pair of the two nested loops.  acc holds the loop         *)
(* position (i, j), the findings list and the number of errors the except  *)
(* clause has logged.  The generated rules hold one whose selector does    *)
(* not compile, a forbidden-cidr-port rule that raises on a malformed      *)
(* permission list, and one of an unknown check kind.                      *)
(***************************************************************************)
MaxBatch == 2

BatchResources ==
    {[arn |-> <<"p">>, resource_type |-> S3, config |-> MapV([a |-> IntV(1)]),
      metadata |-> EmptyDict],
     [arn |-> <<":", "q">>, resource_type |-> S3,
      config |-> MapV([a |-> ListV(<<OpenPermission, StrV("*")>>)]),
      metadata |-> EmptyDict],
     [arn |-> <<"p", "/", "q">>, resource_type |-> IAM,
      config |-> MapV([a |-> ListV(<<StrV("*")>>)]), metadata |-> EmptyDict]}

BatchRules ==
    {[id |-> "u1", resource_type |-> S3, selector |-> NoneV,
      check |-> Check("equals", IntV(2), NoneV, NoneV)],
     [id |-> "u2", resource_type |-> S3,
      selector |-> MapV([arn_pattern |-> TextV(<<"*">>)]),
      check |-> Check("equals", IntV(2), NoneV, NoneV)],
     [id |-> "u3", resource_type |-> S3, selector |-> NoneV,
      check |-> Check("forbidden-cidr-port", NoneV, NoneV,
                      MapV([port |-> IntV(1), cidr |-> StrV("0.0.0.0/0")]))],
     [id |-> "u4", resource_type |-> S3, selector |-> NoneV,
      check |-> Check("regex", IntV(2), NoneV, NoneV)],
     [id |-> "u5", resource_type |-> IAM, selector |-> NoneV,
      check |-> Check("forbidden-any", NoneV, ListV(<<StrV("*")>>), NoneV)]}

ListsOver(S, n) == UNION {[1..k -> S] : k \in 0..n}

InitBatch ==
    \E resources \in ListsOver(BatchResources, MaxBatch),
       rules \in ListsOver(BatchRules, MaxBatch) :
        /\ args = [resources |-> resources, rules |-> rules, tenant_id |-> "t1",
                   snapshot_key |-> "k"]
        /\ heap = <<>>
        /\ heap0 = <<>>
        /\ pc = "call"
        /\ ret = NoResult
        /\ todo = {}
        /\ acc = NoResult

\* The position of the nested loops after the pair (i, j): the next rule,
\* or the first rule of the next resource.
NextPair(i, j) ==
    IF j < Len(args.rules) THEN [i |-> i, j |-> j + 1] ELSE [i |-> i + 1, j |-> 1]

\* findings = []; the loops start at the first pair, if there is one.
BatchCall ==
    /\ pc = "call"
    /\ pc' = "loop"
    /\ acc' = [i |-> IF args.rules = <<>> THEN Len(args.resources) + 1 ELSE 1,
               j |-> 1, findings |-> <<>>, logged |-> 0]
    /\ UNCHANGED <<heap, heap0, args, ret, todo>>

\* finding = evaluate_rule(...); if finding: findings.append(finding)
BatchPair ==
    /\ pc = "loop"
    /\ acc.i <= Len(args.resources)
    /\ LET out == eval_evaluate_rule(args.resources[acc.i], args.rules[acc.j],
                                     args.tenant_id, args.snapshot_key)
           pos == NextPair(acc.i, acc.j)
       IN  /\ ~out.raised
           /\ \E finding \in out.results :
                  acc' = [i |-> pos.i, j |-> pos.j,
                          findings |-> IF finding.t = "finding"
                                       THEN Append(acc.findings, finding)
                                       ELSE acc.findings,
                          logged |-> acc.logged]
    /\ UNCHANGED <<heap, heap0, args, ret, todo, pc>>

\* Mutant: the exception of a pair leaves evaluate_resources.
BatchPairRaises_abort ==
    /\ pc = "loop"
    /\ acc.i <= Len(args.resources)
    /\ eval_evaluate_rule(args.resources[acc.i], args.rules[acc.j],
                          args.tenant_id, args.snapshot_key).raised
    /\ pc' = "raised"
    /\ UNCHANGED <<heap, heap0, args, ret, todo, acc>>

\* except Exception as e: logger.error(...); continue
BatchPairRaises ==
    /\ pc = "loop"
    /\ acc.i <= Len(args.resources)
    /\ eval_evaluate_rule(args.resources[acc.i], args.rules[acc.j],
                          args.tenant_id, args.snapshot_key).raised
    /\ acc' = [i |-> NextPair(acc.i, acc.j).i, j |-> NextPair(acc.i, acc.j).j,
               findings |-> acc.findings, logged |-> acc.logged + 1]
    /\ UNCHANGED <<heap, heap0, args, ret, todo, pc>>

\* return findings
BatchReturn ==
    /\ pc = "loop"
    /\ acc.i > Len(args.resources)
    /\ pc' = "done"
    /\ ret' = ListV(acc.findings)
    /\ UNCHANGED <<heap, heap0, args, todo, acc>>

NextBatch == BatchCall \/ BatchPair \/ BatchPairRaises \/ BatchReturn

SpecBatch == InitBatch /\ [][NextBatch]_vars

\* The loops of evaluate_resources are sequential code whose every step
\* terminates: a step that can be taken is taken.
SpecBatchFair == SpecBatch /\ WF_vars(NextBatch)

(***************************************************************************)
(* Claims about evaluate_resources (SpecBatchFair).                        *)
(***************************************************************************)
BatchPairs ==
    {q \in (DOMAIN args.resources) \X (DOMAIN args.rules) : TRUE}
\* What the pair yields when it is evaluated on its own.
Alone(q) ==
    eval_evaluate_rule(args.resources[q[1]], args.rules[q[2]], args.tenant_id,
                       args.snapshot_key)
Fails(q) ==
    \/ Alone(q).raised
    \/ args.rules[q[2]].check.type \notin
           {"equals", "forbidden-any", "forbidden-cidr-port", "golden-config"}
Yields(q) == ~Alone(q).raised /\ \E f \in Alone(q).results : f.t = "finding"
BatchRank(q) == 1 + Cardinality({r \in BatchPairs : Yields(r) /\ Before(r, q)})

BatchResult ==
    pc = "done" =>
        /\ \A q \in BatchPairs : Fails(q) => ~Yields(q)
        /\ Len(ret.v) = Cardinality({q \in BatchPairs : Yields(q)})
        /\ \A q \in BatchPairs :
               Yields(q) => ret.v[BatchRank(q)] \in Alone(q).results
        /\ acc.logged = Cardinality({q \in BatchPairs : Alone(q).raised})

\* C22: evaluate_resources always runs to the end of the batch; a pair
\* whose evaluation raises or that names an unknown check kind yields no
\* Finding, and every other pair yields in the result, in the order of the
\* loops, what it yields when it is evaluated alone.
C22_RunsToEnd == [](pc # "raised" /\ BatchResult) /\ <>(pc = "done")

\* A batch whose first pair raises and whose later pair fails its check:
\* the Finding of the later pair is returned.
C22_Witness ==
    /\ pc = "done"
    /\ BatchPairs # {}
    /\ \E q \in BatchPairs : Alone(q).raised /\ \E r \in BatchPairs : Before(q, r) /\ Yields(r)
    /\ ret.v # <<>>
    /\ acc.logged > 0

\* What evaluate_resources returns when every evaluation succeeded and
\* found nothing.
CleanEmptyResult == ListV(<<>>)

\* C23 as stated: what evaluate_resources hands to its caller tells a run
\* in which some evaluations failed from a run in which all succeeded and
\* found nothing.  The code returns the findings list alone, the errors are
\* only logged: a run with failed pairs and no Finding returns the empty
\* list of the clean run.
C23_AsStated ==
    (pc = "done" /\ acc.logged > 0) => ret # CleanEmptyResult

\* What holds instead: the result is the findings list and nothing else,
\* whatever the number of logged errors.
C23_FindingsOnly ==
    pc = "done" => ret = ListV(acc.findings)

(***************************************************************************)
(* metrics_handler.aggregate_metrics.  A finding is [snapshot_key,         *)
(* timestamp]; the timestamps, ISO texts of one format that Python         *)
(* compares as texts, are numbers from 1 on, and 0 is the empty text a     *)
(* scan starts with; the empty snapshot_key is also that of a finding      *)
(* without the key.  The per-scan counts by severity and the top rules are *)
(* sums over fields the model does not hold; the scans, their order, the   *)
(* current and the previous scan and the timeline are modelled.            *)
(***************************************************************************)
Max(x, y) == IF x >= y THEN x ELSE y

\* The loop "for finding in findings": scans in the order their
\* snapshot_key is first seen (the order of scans.values()).
RECURSIVE GroupScans(_, _)
GroupScans(findings, scans) ==
    IF findings = <<>> THEN scans
    ELSE LET finding == Head(findings)
             at == {n \in DOMAIN scans : scans[n].snapshot_key = finding.snapshot_key}
         IN  IF finding.snapshot_key = "" THEN GroupScans(Tail(findings), scans)
             ELSE IF at = {}
             THEN GroupScans(Tail(findings),
                             Append(scans, [snapshot_key |-> finding.snapshot_key,
                                            timestamp |-> Max(0, finding.timestamp),
                                            total |-> 1]))
             ELSE LET n == CHOOSE n \in at : TRUE
                  IN  GroupScans(Tail(findings),
                                 [scans EXCEPT ![n].timestamp = Max(@, finding.timestamp),
                                               ![n].total = @ + 1])

\* sorted(scans.values(), key=timestamp, reverse=True): a stable sort, the
\* scans of one timestamp keep their order.
RECURSIVE SortRecent(_)
SortRecent(scans) ==
    IF scans = <<>> THEN <<>>
    ELSE LET top == CHOOSE n \in DOMAIN scans :
                        /\ \A m \in DOMAIN scans : scans[m].timestamp <= scans[n].timestamp
                        /\ \A m \in 1..(n - 1) : scans[m].timestamp < scans[n].timestamp
         IN  <<scans[top]>>
             \o SortRecent(SubSeq(scans, 1, top - 1) \o SubSeq(scans, top + 1, Len(scans)))

Reversed(seq) == [n \in DOMAIN seq |-> seq[Len(seq) + 1 - n]]

\* Mutant: the timeline keeps the order of the sort.
Timeline_recentfirst(sorted_scans, limit) == SubSeq(sorted_scans, 1, Min(limit, Len(sorted_scans)))

\* reversed(sorted_scans[:limit]), for a limit >= 0.
Timeline(sorted_scans, limit) ==
    Reversed(SubSeq(sorted_scans, 1, Min(limit, Len(sorted_scans))))

aggregate_metrics(findings, limit) ==
    LET sorted_scans == SortRecent(GroupScans(findings, <<>>))
    IN  IF findings = <<>> \/ sorted_scans = <<>> THEN NoneV
        ELSE [t |-> "metrics",
              current_scan |-> [snapshot_key |-> sorted_scans[1].snapshot_key,
                                timestamp |-> sorted_scans[1].timestamp,
                                total_findings |-> sorted_scans[1].total],
              previous_scan |-> IF Len(sorted_scans) > 1
                                THEN [t |-> "scan",
                                      snapshot_key |-> sorted_scans[2].snapshot_key,
                                      timestamp |-> sorted_scans[2].timestamp,
                                      total_findings |-> sorted_scans[2].total]
                                ELSE NoneV,
              timeline |-> Timeline(sorted_scans, limit)]

(***************************************************************************)
(* Specification SpecMetrics: aggregate_metrics on generated finding lists *)
(* and limits.                                                             *)
(***************************************************************************)
MaxFindings == 3
MaxStamp == 2
MaxLimit == 2

MetricFindings ==
    {[snapshot_key |-> k, timestamp |-> ts] :
        k \in {"", "s1", "s2", "s3"}, ts \in 1..MaxStamp}

InitMetrics ==
    \E findings \in ListsOver(MetricFindings, MaxFindings), limit \in 0..MaxLimit :
        /\ args = [findings |-> findings, limit |-> limit]
        /\ heap = <<>>
        /\ heap0 = <<>>
        /\ pc = "call"
        /\ ret = NoResult
        /\ todo = {}
        /\ acc = NoResult

AggregateMetrics ==
    /\ pc = "call"
    /\ ret' = aggregate_metrics(args.findings, args.limit)
    /\ pc' = "done"
    /\ UNCHANGED <<heap, heap0, args, todo, acc>>

NextMetrics == AggregateMetrics

SpecMetrics == InitMetrics /\ [][NextMetrics]_vars

(***************************************************************************)
(* Claims about aggregate_metrics (SpecMetrics).                           *)
(***************************************************************************)
ScanKeys == {args.findings[n].snapshot_key : n \in DOMAIN args.findings} \ {""}
\* The timestamp of a scan: the latest of its findings.
StampOf(k) ==
    CHOOSE ts \in 1..MaxStamp :
        /\ \E n \in DOMAIN args.findings :
               args.findings[n] = [snapshot_key |-> k, timestamp |-> ts]
        /\ \A n \in DOMAIN args.findings :
               args.findings[n].snapshot_key = k => args.findings[n].timestamp <= ts
TimelineKeys == {ret.timeline[n].snapshot_key : n \in DOMAIN ret.timeline}

\* C24 as stated: the timeline holds the min(limit, number of scans) most
\* recent scans, most recent first, so that its first entry is the current
\* scan and its second the previous scan.  The code reverses the list: the
\* timeline runs from the oldest of these scans to the most recent.
C24_AsStated ==
    (pc = "done" /\ ret # NoneV) =>
        /\ Len(ret.timeline) = Min(args.limit, Cardinality(ScanKeys))
        /\ \A n, m \in DOMAIN ret.timeline :
               n < m => ret.timeline[n].timestamp >= ret.timeline[m].timestamp
        /\ Len(ret.timeline) >= 1 =>
               ret.timeline[1].snapshot_key = ret.current_scan.snapshot_key
        /\ Len(ret.timeline) >= 2 =>
               ret.timeline[2].snapshot_key = ret.previous_scan.snapshot_key

\* What holds instead: the timeline holds the min(limit, number of scans)
\* most recent scans from the oldest to the most recent, so that its last
\* entry is the current scan and the one before it the previous scan.
C24_OldestFirst ==
    (pc = "done" /\ ret # NoneV) =>
        /\ Len(ret.timeline) = Min(args.limit, Cardinality(ScanKeys))
        /\ Cardinality(TimelineKeys) = Len(ret.timeline)
        /\ \A n \in DOMAIN ret.timeline :
               ret.timeline[n].timestamp = StampOf(ret.timeline[n].snapshot_key)
        /\ \A k \in ScanKeys \ TimelineKeys : \A n \in DOMAIN ret.timeline :
               StampOf(k) <= ret.timeline[n].timestamp
        /\ \A n, m \in DOMAIN ret.timeline :
               n < m => ret.timeline[n].timestamp <= ret.timeline[m].timestamp
        /\ Len(ret.timeline) >= 1 =>
               ret.timeline[Len(ret.timeline)].snapshot_key = ret.current_scan.snapshot_key
        /\ Len(ret.timeline) >= 2 =>
               ret.timeline[Len(ret.timeline) - 1].snapshot_key
                   = ret.previous_scan.snapshot_key

(***************************************************************************)
(* Claims about the configuration sources of detect_conflicts              *)
(* (SpecConflicts).                                                        *)
(***************************************************************************)
\* The configuration of source i after the call.
SrcTreeAfter(i) == Tree(heap, args.configs[i].config)

\* C25 as stated: after detect_conflicts returns, the configuration of
\* every source passed in equals its value before the call, also when the
\* sources disagree on whether a path is a leaf or a map.  In the code the
\* merged configuration takes a source's dict itself as the value of a path
\* that another source holds as a leaf, and a later path below it is then
\* written into that source.
C25_AsStated ==
    pc = "done" => \A i \in Sources : SrcTreeAfter(i) = SrcTree(i)

\* No path is a leaf in one source and a map in another.
ShapesAgree ==
    \A i, j \in Sources : \A p \in PathSet :
        ~(IsLeaf(SrcTree(i), p) /\ IsMapAt(SrcTree(j), p))

\* What holds instead: the sources are unchanged when they agree on the
\* shape of every path.
C25_ShapesAgree ==
    (pc = "done" /\ ShapesAgree) => \A i \in Sources : SrcTreeAfter(i) = SrcTree(i)


(***************************************************************************)
(* The two evaluation modes of eval_old.py (SpecEval).                     *)
(***************************************************************************)
\* A finding of evaluate_with_hierarchical_config carries the drift metadata;
\* one of the legacy evaluator evaluate_golden_config carries none.
LegacyFinding(f) == f.metadata = NoneV

\* C26: a finished run in hierarchical mode holds no finding computed by a
\* legacy check evaluator, also for a resource whose hierarchical evaluation
\* raised.
C26_AsStated ==
    (pc = "done" /\ args.use_hierarchical) =>
        \A j \in DOMAIN ret : ~LegacyFinding(ret[j])

\* What holds instead: a legacy finding of a hierarchical run belongs to a
\* resource one of whose hierarchical evaluations raised (it had a base or a
\* group and produced no effective configuration).
C26_OnlyOnError ==
    (pc = "done" /\ args.use_hierarchical) =>
        \A j \in DOMAIN ret :
            LegacyFinding(ret[j]) =>
                \E k \in CallsFor(ret[j].resource_arn) :
                    /\ acc.calls[k].effective = NoneV
                    /\ (acc.calls[k].base # NoneV \/ acc.calls[k].groups # <<>>)


(***************************************************************************)
(* Determinism of detect_conflicts (SpecConflicts).  The loop runs over a  *)
(* set of strings, whose iteration order is fixed by the interpreter's     *)
(* string hashing and not by the input: detect_conflicts(h, configs) is    *)
(* the set of outcomes over all orders.                                    *)
(***************************************************************************)
\* A Conflict record with its values read from the heap.
ConflictOf(h, c) ==
    [path |-> c.path, sources |-> c.sources,
     values |-> [k \in DOMAIN c.values |-> Abs(h, c.values[k])],
     resolution |-> c.resolution]
ConflictSet(h, conflicts) == {ConflictOf(h, conflicts[k]) : k \in DOMAIN conflicts}
\* Another call on the same input returns what the finished call returned.
SameOutcome(o) ==
    /\ ~o.raised
    /\ Tree(o.h, o.merged_config) = Merged
    /\ ConflictSet(o.h, o.conflicts) = ConflictSet(heap, ret.conflicts)

\* C27: every call of detect_conflicts on the same ordered list of sources
\* returns the same merged configuration and the same set of conflicts, and
\* at a conflicting path whose maximal priority is shared the earliest source
\* of that priority supplies the merged value.
C27_AsStated ==
    pc = "done" =>
        /\ \A o \in detect_conflicts(heap0, args.configs) : SameOutcome(o)
        /\ \A p \in PathSet :
               (UnionLeaf(p) /\ Cardinality(DistinctAt(p)) > 1) =>
                   \E i \in TopPriority(p) :
                       /\ \A j \in TopPriority(p) : i <= j
                       /\ Lookup(Merged, p) = Lookup(SrcTree(i), p)

\* What holds instead: the outcome is the same in every order when no path is
\* a leaf in one source and a map in another.
C27_ShapesAgree ==
    (pc = "done" /\ ShapesAgree) =>
        /\ \A o \in detect_conflicts(heap0, args.configs) : SameOutcome(o)
        /\ \A p \in PathSet :
               (UnionLeaf(p) /\ Cardinality(DistinctAt(p)) > 1) =>
                   \E i \in TopPriority(p) :
                       /\ \A j \in TopPriority(p) : i <= j
                       /\ Lookup(Merged, p) = Lookup(SrcTree(i), p)


(***************************************************************************)
(* Specification SpecWorkers: the batch of evaluate_resources (eval.py)    *)
(* run by a pool of workers, one per resource (spec.md section 5).  Each   *)
(* worker runs the body of the resource loop, "for rule in rules", on its  *)
(* own resource; the steps of the workers interleave in any order and the  *)
(* findings go to the one list of the run.  acc.next[i] is the position of *)
(* worker i in the rules, acc.owners[k] the worker that appended the k-th  *)
(* finding.                                                                *)
(***************************************************************************)
\* Mutant: the workers share the loop variable and read the first resource.
WorkerResource_shared(i) == args.resources[1]

\* for resource in resources: the resource of worker i.
WorkerResource(i) == args.resources[i]

\* The lists over S of at most n elements without repetition.
DistinctListsOver(S, n) ==
    {l \in ListsOver(S, n) : \A x, y \in DOMAIN l : l[x] = l[y] => x = y}

\* A batch of distinct resources and distinct rules.
InitWorkers ==
    \E resources \in DistinctListsOver(BatchResources, MaxBatch),
       rules \in DistinctListsOver(BatchRules, MaxBatch) :
        /\ args = [resources |-> resources, rules |-> rules, tenant_id |-> "t1",
                   snapshot_key |-> "k"]
        /\ heap = <<>>
        /\ heap0 = <<>>
        /\ pc = "call"
        /\ ret = NoResult
        /\ todo = {}
        /\ acc = NoResult

\* findings = []; every worker starts at the first rule.
WorkersCall ==
    /\ pc = "call"
    /\ pc' = "pool"
    /\ acc' = [next |-> [i \in DOMAIN args.resources |-> 1],
               findings |-> <<>>, owners |-> <<>>, logged |-> 0]
    /\ UNCHANGED <<heap, heap0, args, ret, todo>>

\* Worker i: finding = evaluate_rule(...); if finding: findings.append(finding)
WorkerPair ==
    /\ pc = "pool"
    /\ \E i \in DOMAIN args.resources :
        /\ acc.next[i] <= Len(args.rules)
        /\ LET out == eval_evaluate_rule(WorkerResource(i), args.rules[acc.next[i]],
                                         args.tenant_id, args.snapshot_key)
           IN  /\ ~out.raised
               /\ \E finding \in out.results :
                      acc' = [next |-> [acc.next EXCEPT ![i] = @ + 1],
                              findings |-> IF finding.t = "finding"
                                           THEN Append(acc.findings, finding)
                                           ELSE acc.findings,
                              owners |-> IF finding.t = "finding"
                                         THEN Append(acc.owners, i)
                                         ELSE acc.owners,
                              logged |-> acc.logged]
    /\ UNCHANGED <<heap, heap0, args, ret, todo, pc>>

\* Worker i: except Exception as e: logger.error(...); continue
WorkerPairRaises ==
    /\ pc = "pool"
    /\ \E i \in DOMAIN args.resources :
        /\ acc.next[i] <= Len(args.rules)
        /\ eval_evaluate_rule(WorkerResource(i), args.rules[acc.next[i]],
                              args.tenant_id, args.snapshot_key).raised
        /\ acc' = [acc EXCEPT !.next[i] = @ + 1, !.logged = @ + 1]
    /\ UNCHANGED <<heap, heap0, args, ret, todo, pc>>

\* Every worker is through the rules: return findings
WorkersReturn ==
    /\ pc = "pool"
    /\ \A i \in DOMAIN args.resources : acc.next[i] > Len(args.rules)
    /\ pc' = "done"
    /\ ret' = ListV(acc.findings)
    /\ UNCHANGED <<heap, heap0, args, todo, acc>>

NextWorkers == WorkersCall \/ WorkerPair \/ WorkerPairRaises \/ WorkersReturn

SpecWorkers == InitWorkers /\ [][NextWorkers]_vars

\* The rules that yield a Finding for resource i evaluated alone.
YieldingRules(i) == {j \in DOMAIN args.rules : Yields(<<i, j>>)}
\* The positions in the run's list of the findings of worker i.
OwnedBy(i) == {k \in DOMAIN acc.owners : acc.owners[k] = i}
\* The k-th finding of worker i is what the k-th yielding rule gives the
\* resource alone.
OwnRank(i, k) == Cardinality({m \in OwnedBy(i) : m <= k})
RuleRank(i, j) == Cardinality({m \in YieldingRules(i) : m <= j})

LeafValue(i, p) == IsLeaf(SrcTree(i), p) /\ Lookup(SrcTree(i), p) # NoneV
\* The merged configuration holds at every leaf path some source defines a
\* value one of the sources contributes there.
LeavesKept ==
    \A p \in PathSet :
        (\E i \in Sources : LeafValue(i, p)) =>
            \E i \in Sources : LeafValue(i, p) /\ Lookup(Merged, p) = Lookup(SrcTree(i), p)

\* C29: detect_conflicts returns without raising for any list of sources,
\* also when a path is a scalar leaf in one source and a map in another, and
\* the merged configuration holds at every leaf path that some source defines
\* with a non-null value a value contributed at that path by a source.
C29_AsStated ==
    /\ pc # "raised"
    /\ pc = "done" => LeavesKept

\* What holds instead: the same for sources where no path is a leaf in one
\* and a map in another.
C29_ShapesAgree ==
    ShapesAgree =>
        /\ pc # "raised"
        /\ pc = "done" => LeavesKept


(***************************************************************************)
(* detect_conflicts against the fold of deep_merge (SpecConflicts).        *)
(***************************************************************************)
RECURSIVE FoldMerge(_, _, _)
\* deep_merge of the configurations of the list into result, in list order:
\* the tree of the last result.
FoldMerge(h, result, configs) ==
    IF configs = <<>> THEN Tree(h, result)
    ELSE LET m == deep_merge(h, result, Head(configs).config)
         IN  FoldMerge(m.h, m.r, Tail(configs))

\* The fold over the base and then the groups in ascending priority.
FoldedTree ==
    LET sorted == SortByPriority(args.configs)
    IN  FoldMerge(heap0, sorted[1].config, Tail(sorted))

\* The first source is the base at priority 0, the others are groups with
\* pairwise distinct priorities above 0.
BaseAndGroups ==
    /\ args.configs[1].priority = 0
    /\ \A i \in Sources \ {1} : args.configs[i].priority > 0
    /\ \A i, j \in Sources : args.configs[i].priority = args.configs[j].priority => i = j
\* No source holds a null leaf or an empty map.
NoNullNoEmpty ==
    \A i \in Sources : \A p \in PathSet :
        /\ Lookup(SrcTree(i), p) # NoneV
        /\ IsMapAt(SrcTree(i), p) => DOMAIN Lookup(SrcTree(i), p).v # {}

\* C30: for a base at priority 0 and groups of pairwise distinct priorities
\* above 0 whose configurations hold no null leaf, no empty map and no path
\* that is a leaf in one source and a map in another, the merged
\* configuration of detect_conflicts is the fold of deep_merge over the base
\* and the groups in ascending priority.
C30_AsStated ==
    (BaseAndGroups /\ NoNullNoEmpty /\ ShapesAgree) =>
        /\ pc # "raised"
        /\ pc = "done" => Merged = FoldedTree

\* Two sources hold at a path different values with the same string form.
StrClash ==
    \E i, j \in Sources, p \in PathSet :
        /\ IsLeaf(SrcTree(i), p) /\ IsLeaf(SrcTree(j), p)
        /\ Lookup(SrcTree(i), p) # Lookup(SrcTree(j), p)
        /\ StrAt(i, p) = StrAt(j, p)

\* What holds instead: the two agree when, besides, no two sources hold at a
\* path different values of the same string form.
C30_NoStrClash ==
    (BaseAndGroups /\ NoNullNoEmpty /\ ShapesAgree /\ ~StrClash) =>
        /\ pc # "raised"
        /\ pc = "done" => Merged = FoldedTree

=============================================================================
